---- MODULE Spec2Model ----
(***************************************************************************)
(* State-machine model of the SOA pipelines of the document processor:     *)
(*   soa_direct/soa_direct_processor.py      (ledger pipeline)             *)
(*   soa_reinsurer/soa_reinsurer_cashcall.py (cash-call pipeline)          *)
(*   soa_reinsurer/soa_reinsurer_premium.py  (premium pipeline)            *)
(*                                                                         *)
(* Conventions.                                                            *)
(*  - A nullable number or date is a sequence of length 0 or 1: NaN / NaT  *)
(*    is << >>, the value v is <<v>>.  Comparisons with NaN are FALSE, as  *)
(*    in Python / pandas.                                                  *)
(*  - A text is a sequence of one-character strings; a missing (NaN) cell  *)
(*    of a text column is NaNCell.                                         *)
(*  - A date cell of a CSV file is a record [kind, day]: kind "date" is a  *)
(*    text pandas parses to day number `day`, kind "text" is a text that   *)
(*    does not parse, kind "nan" is an empty cell.                         *)
(***************************************************************************)
EXTENDS Integers, Sequences, FiniteSets, TLC

VARIABLES
    \* --- aging classifiers applied to one date cell
    a_cell,        \* the date cell classified
    a_days,        \* ledger DaysDiff of the cell (nullable number)
    a_ledger,      \* ledger Aging label, "" before aging_category ran
    a_cash,        \* cash-call Aging label, "" before calculate_aging_cashcall ran
    \* --- date normalization of one ledger record (extract_soa_direct)
    d_pc,          \* "raw", "parsed", "resolved", "aged"
    d_raw,         \* the CSV cells [Incept, Eff] of the record
    d_Incept,      \* df["Incept Date"] (nullable date)
    d_Eff,         \* df["Eff Date"] (nullable date)
    d_DaysDiff,    \* df_all["DaysDiff"] (nullable number)
    d_Aging,       \* df_all["Aging"], "" before it is computed
    \* --- money coercion of one cell
    m_cell,        \* the raw cell of a money column
    m_done,        \* which pipelines' coercions have run on it
    m_ledger,      \* the ledger pipeline's value (nullable number)
    m_cash,        \* the cash-call pipeline's value (nullable number)
    \* --- process_cashcall, from the money coercion on
    cc_pc,         \* "coerce", "loop", "done"
    cc_bulk,       \* df_bulk_copy rows [Reinsurer, Amount] with Amount still a text
    cc_df,         \* df_processed rows [idx, Reinsurer, Amount], Amount a nullable number
    cc_reinsurers, \* df_processed['Reinsurer'].dropna().unique()
    cc_i,          \* position of the for loop in cc_reinsurers
    cc_processed,  \* processed_reinsurers
    cc_output,     \* output_dfs
    \* --- process_premium, from the money coercion on
    pr_pc,         \* "coerce", "loop", "done"
    pr_raw,        \* df rows [Reinsurer, Amount] with Amount still a text
    pr_df,         \* df_processed rows [idx, Reinsurer, Amount]
    pr_reinsurers, \* df_processed['Reinsurer'].dropna().unique()
    pr_i,          \* position of the for loop in pr_reinsurers
    pr_processed,  \* processed_reinsurers
    pr_output,     \* output_dfs
    \* --- extract_soa_direct
    l_pc,          \* "read", "pass1", "pass2", "done", "raised"
    l_files,       \* the uploaded CSV files, each a sequence of rows
    l_df,          \* df_all
    l_k,           \* position of the pass-1 loop in merge_groups_map
    l_keys,        \* the (Branch, Intermediary) keys of the pass-2 groupby, in order
    l_j,           \* position of the pass-2 loop in l_keys
    l_excel_files, \* the documents written, in the order of excel_files
    l_zip,         \* the members of the archive, << >> before it is built
    l_used,        \* used_prefixes
    l_result,      \* what extract_soa_direct returned, "" while it runs
    \* --- merge-group lookup of one entity name under one configuration
    g_pc,          \* "config", "lookup", "done"
    g_source,      \* the merge configuration, a list of groups of names
    g_name,        \* the entity name looked up (a cell of the name column)
    g_groups,      \* merge_groups of _build_merge_maps
    g_alias,       \* alias_to_master of _build_merge_maps
    g_pass1,       \* the masters whose pass-1 selection takes a record of that name
    g_pass2,       \* pass-2 alias test on the name: "skip" or "emit", "" before
    g_find,        \* find_merge_group of the reinsurer pipelines, "" before
    \* --- aging-summary section of one cash-call or premium block
    s_pc,          \* "data", "done"
    s_kind,        \* which formatter writes the block
    s_rows,        \* the data rows [Aging, Amount] of the block
    s_summary,     \* the rows [label, value] written under the summary header
    \* --- the working directory of one orchestrator call
    w_pc,          \* "start", "try", "returned", "raised"
    w_kind,        \* "ledger", "cashcall" or "premium"
    w_docs,        \* the filenames of the documents the call has to write
    w_n,           \* how many of them are written
    w_exists,      \* temp_dir exists
    w_disk,        \* the files in temp_dir
    w_result,      \* "", "triple", "None" or "exception"
    \* --- the columns of the ledger input
    k_intermediary, \* the CSV files have an "Intermediary" column
    \* --- the two files of process_cashcall
    f_pc,          \* "files", "named", "resolved", "read", "raised"
    f_files,       \* the filenames of the uploaded files, in order
    f_bulk,        \* position in f_files of bulk_file, 0 for None
    f_summary,     \* position in f_files of summary_file, 0 for None
    \* --- the loss-date join of process_cashcall
    j_pc,          \* "cleaned", "merged", "populated", "raised"
    j_bulk,        \* df_bulk_copy: rows [idx, fla, loss], idx the index label
    j_details,     \* df_details_copy: rows [fla, loss]
    j_merged,      \* merged_df: rows [left, loss], left a position of j_bulk
    \* --- clean_cashcall_bulk_data
    c_pc,          \* "input", "step1", "step2", "cleaned"
    c_input,       \* the frame passed in
    c_df,          \* df: rows [Reinsurer, Claim, Policy, Assured]
    c_index        \* the index labels of the rows of c_df

agingVars == <<a_cell, a_days, a_ledger, a_cash>>
dateVars == <<d_pc, d_raw, d_Incept, d_Eff, d_DaysDiff, d_Aging>>

moneyVars == <<m_cell, m_done, m_ledger, m_cash>>

ccVars == <<cc_pc, cc_bulk, cc_df, cc_reinsurers, cc_i, cc_processed, cc_output>>
prVars == <<pr_pc, pr_raw, pr_df, pr_reinsurers, pr_i, pr_processed, pr_output>>

ledVars ==
    <<l_pc, l_files, l_df, l_k, l_keys, l_j, l_excel_files, l_zip, l_used, l_result>>

mergeVars == <<g_pc, g_source, g_name, g_groups, g_alias, g_pass1, g_pass2, g_find>>

\* the variables of the specifications added after the six pipelines above
summaryVars == <<s_pc, s_kind, s_rows, s_summary>>

workdirVars == <<w_pc, w_kind, w_docs, w_n, w_exists, w_disk, w_result>>
columnVars == <<k_intermediary>>

\* the variables of the specifications that follow SpecSummary
resolveVars == <<f_pc, f_files, f_bulk, f_summary>>
joinVars == <<j_pc, j_bulk, j_details, j_merged>>
cleanVars == <<c_pc, c_input, c_df, c_index>>
laterVars == <<workdirVars, columnVars, resolveVars, joinVars, cleanVars>>

extVars == <<mergeVars, summaryVars, laterVars>>

vars == <<agingVars, dateVars, moneyVars, ccVars, prVars, ledVars, extVars>>

-----------------------------------------------------------------------------
(* Bounds of the model *)

\* day number of "today" (datetime.today() / datetime.now())
Today == 400
\* oldest date drawn for the aging classifiers, in days before Today
MaxDays == 365
\* latest date drawn, in days after Today
FutureDays == 2
\* dates drawn for a ledger record: DateSpan days back from Today
DateSpan == 5
\* longest text drawn for a money cell
MaxMoneyLen == 4
\* most rows of a reinsurer input file
MaxRows == 3
\* most rows of the ledger input, all files together
MaxLedgerRows == 3

-----------------------------------------------------------------------------
(* Nullable values *)

NaN == << >>
NaT == << >>
Num(n) == <<n>>
IsNa(x) == x = << >>
Val(x) == x[1]

\* Python comparisons of a float that may be NaN with an int: NaN compares FALSE
Lt(x, n) == ~IsNa(x) /\ Val(x) < n
Le(x, n) == ~IsNa(x) /\ Val(x) <= n

NaNCell == <<"<NaN>">>

DateCell(d) == [kind |-> "date", day |-> d]
TextCell == [kind |-> "text", day |-> 0]
EmptyCell == [kind |-> "nan", day |-> 0]

\* pd.to_datetime(column, errors="coerce"): what does not parse becomes NaT
to_datetime_coerce(cell) == IF cell.kind = "date" THEN <<cell.day>> ELSE NaT

\* (today - date).dt.days : NaT gives NaN
days_since(date) == IF IsNa(date) THEN NaN ELSE Num(Today - Val(date))

-----------------------------------------------------------------------------
(* Texts: sequences of one-character strings *)

Range(s) == {s[i] : i \in DOMAIN s}

SeqsUpTo(S, n) == UNION {[1 .. k -> S] : k \in 0 .. n}

IsSpace(c) == c = " "

RECURSIVE lstrip(_)
lstrip(s) == IF s # << >> /\ IsSpace(Head(s)) THEN lstrip(Tail(s)) ELSE s

RECURSIVE rstrip(_)
rstrip(s) ==
    IF s # << >> /\ IsSpace(s[Len(s)]) THEN rstrip(SubSeq(s, 1, Len(s) - 1)) ELSE s

\* str.strip()
str_strip(s) == lstrip(rstrip(s))

\* str.replace(c, "")
str_remove(s, c) == SelectSeq(s, LAMBDA x : x # c)

\* str.replace(c, d) for single characters
str_replace(s, c, d) == [i \in DOMAIN s |-> IF s[i] = c THEN d ELSE s[i]]

\* astype(str): a NaN cell becomes the text "nan"
astype_str(cell) == IF cell = NaNCell THEN <<"n", "a", "n">> ELSE cell

Digits == {"0", "1", "2", "3", "4", "5", "6", "7", "8", "9"}

DigitVal(c) ==
    CASE c = "0" -> 0 [] c = "1" -> 1 [] c = "2" -> 2 [] c = "3" -> 3 [] c = "4" -> 4
      [] c = "5" -> 5 [] c = "6" -> 6 [] c = "7" -> 7 [] c = "8" -> 8 [] c = "9" -> 9

RECURSIVE DigitsVal(_)
DigitsVal(s) ==
    IF s = << >> THEN 0 ELSE 10 * DigitsVal(SubSeq(s, 1, Len(s) - 1)) + DigitVal(s[Len(s)])

AllDigits(s) == s # << >> /\ \A i \in DOMAIN s : s[i] \in Digits

\* pd.to_numeric(text, errors="coerce") on the texts of the model (whole
\* numbers): blanks around the number are skipped, an optional sign, then
\* digits only; anything else, "nan" included, is NaN
to_numeric_coerce(s) ==
    LET t == str_strip(s) IN
    IF AllDigits(t) THEN Num(DigitsVal(t))
    ELSE IF t # << >> /\ Head(t) \in {"-", "+"} /\ AllDigits(Tail(t))
         THEN Num((IF Head(t) = "-" THEN -1 ELSE 1) * DigitsVal(Tail(t)))
    ELSE NaN

fillna0(x) == IF IsNa(x) THEN Num(0) ELSE x

\* soa_direct lines 147-152, one cell of a MONEY_COLS column
coerce_money_ledger(cell) ==
    fillna0(to_numeric_coerce(str_remove(str_strip(astype_str(cell)), ",")))

\* the lambda of line 309: a trailing minus sign is moved to the front
trailing_minus(x) ==
    IF x # << >> /\ x[Len(x)] = "-" THEN <<"-">> \o SubSeq(x, 1, Len(x) - 1) ELSE x

\* soa_reinsurer_cashcall lines 302-312, one cell of Total Amount Due
coerce_amount_cashcall(cell) ==
    to_numeric_coerce(
        trailing_minus(
            str_remove(
                str_replace(str_remove(str_strip(astype_str(cell)), ","), "(", "-"),
                ")")))

\* soa_reinsurer_premium lines 606-609, one cell of Balance Due
coerce_balance_premium(cell) ==
    to_numeric_coerce(str_remove(astype_str(cell), ","))

-----------------------------------------------------------------------------
(* Aging classifiers *)

ALL_AGING_CATEGORIES ==
    << "Within 90days-Credit Term", "Over 90 days", "Over 120 days",
       "Over 180 days", "Over 360 days" >>

CASHCALL_AGING_LABELS ==
    << "CURRENT", "Over 30 days", "Over 60 days", "Over 90 days",
       "Over 120 days", "Over 180 days", "Over 360 days" >>

\* a plausible slip: the last two branches share a bound, "Over 180 days" is lost
aging_category_merged(days) ==
    IF Lt(days, 90) THEN "Within 90days-Credit Term"
    ELSE IF Le(days, 120) THEN "Over 90 days"
    ELSE IF Le(days, 180) THEN "Over 120 days"
    ELSE "Over 360 days"

aging_category(days) ==
    IF Lt(days, 90) THEN "Within 90days-Credit Term"
    ELSE IF Le(days, 120) THEN "Over 90 days"
    ELSE IF Le(days, 180) THEN "Over 120 days"
    ELSE IF Le(days, 360) THEN "Over 180 days"
    ELSE "Over 360 days"

\* the if/elif chain of calculate_aging_cashcall on an integer days_diff
cashcall_bucket(days_diff) ==
    IF days_diff <= 30 THEN "CURRENT"
    ELSE IF days_diff <= 60 THEN "Over 30 days"
    ELSE IF days_diff <= 90 THEN "Over 60 days"
    ELSE IF days_diff <= 120 THEN "Over 90 days"
    ELSE IF days_diff <= 180 THEN "Over 120 days"
    ELSE IF days_diff <= 360 THEN "Over 180 days"
    ELSE "Over 360 days"

\* a plausible slip: the first bound exclusive
calculate_aging_cashcall_excl(fla_date) ==
    IF fla_date.kind = "nan" THEN "CURRENT"
    ELSE IF fla_date.kind = "text" THEN "CURRENT"
    ELSE IF Today - fla_date.day < 30 THEN "CURRENT"
    ELSE IF Today - fla_date.day <= 60 THEN "Over 30 days"
    ELSE cashcall_bucket(Today - fla_date.day)

\* fla_date is the raw cell: pd.isna -> CURRENT; a text that does not parse
\* raises inside the try and the bare except returns CURRENT
calculate_aging_cashcall(fla_date) ==
    IF fla_date.kind = "nan" THEN "CURRENT"
    ELSE IF fla_date.kind = "text" THEN "CURRENT"
    ELSE cashcall_bucket(Today - fla_date.day)

-----------------------------------------------------------------------------
(* Specification SpecAging: both classifiers applied to one date cell *)

AgingDays == (Today - MaxDays) .. (Today + FutureDays)
AgingCells == {EmptyCell, TextCell} \cup {DateCell(d) : d \in AgingDays}

AgingIdle ==
    /\ a_cell = EmptyCell
    /\ a_days = NaN
    /\ a_ledger = "idle"
    /\ a_cash = "idle"

DatesIdle ==
    /\ d_pc = "idle"
    /\ d_raw = [Incept |-> EmptyCell, Eff |-> EmptyCell]
    /\ d_Incept = NaT
    /\ d_Eff = NaT
    /\ d_DaysDiff = NaN
    /\ d_Aging = ""

MoneyIdle ==
    /\ m_cell = NaNCell
    /\ m_done = {"idle"}
    /\ m_ledger = NaN
    /\ m_cash = NaN

CashcallIdle ==
    /\ cc_pc = "idle"
    /\ cc_bulk = << >>
    /\ cc_df = << >>
    /\ cc_reinsurers = << >>
    /\ cc_i = 1
    /\ cc_processed = {}
    /\ cc_output = << >>

PremiumIdle ==
    /\ pr_pc = "idle"
    /\ pr_raw = << >>
    /\ pr_df = << >>
    /\ pr_reinsurers = << >>
    /\ pr_i = 1
    /\ pr_processed = {}
    /\ pr_output = << >>

LedgerIdle ==
    /\ l_pc = "idle"
    /\ l_files = << >>
    /\ l_df = << >>
    /\ l_k = 1
    /\ l_keys = << >>
    /\ l_j = 1
    /\ l_excel_files = << >>
    /\ l_zip = << >>
    /\ l_used = {}
    /\ l_result = ""

MergeIdle ==
    /\ g_pc = "idle"
    /\ g_source = << >>
    /\ g_name = NaNCell
    /\ g_groups = << >>
    /\ g_alias = {}
    /\ g_pass1 = << >>
    /\ g_pass2 = ""
    /\ g_find = ""

SummaryIdle ==
    /\ s_pc = "idle"
    /\ s_kind = ""
    /\ s_rows = << >>
    /\ s_summary = << >>

WorkdirIdle ==
    /\ w_pc = "idle"
    /\ w_kind = ""
    /\ w_docs = << >>
    /\ w_n = 0
    /\ w_exists = FALSE
    /\ w_disk = {}
    /\ w_result = ""

\* the ledger input has its "Intermediary" column
ColumnsPresent == k_intermediary = TRUE

ResolveIdle ==
    /\ f_pc = "idle"
    /\ f_files = << >>
    /\ f_bulk = 0
    /\ f_summary = 0

JoinIdle ==
    /\ j_pc = "idle"
    /\ j_bulk = << >>
    /\ j_details = << >>
    /\ j_merged = << >>

CleanIdle ==
    /\ c_pc = "idle"
    /\ c_input = << >>
    /\ c_df = << >>
    /\ c_index = << >>

LaterIdle ==
    /\ WorkdirIdle
    /\ ColumnsPresent
    /\ ResolveIdle
    /\ JoinIdle
    /\ CleanIdle

\* the specifications added after the six pipelines are not running
ExtIdle ==
    /\ MergeIdle
    /\ SummaryIdle
    /\ LaterIdle

InitAging ==
    /\ a_cell \in AgingCells
    /\ a_days = NaN
    /\ a_ledger = ""
    /\ a_cash = ""
    /\ DatesIdle
    /\ MoneyIdle
    /\ CashcallIdle
    /\ PremiumIdle
    /\ LedgerIdle
    /\ ExtIdle

\* soa_direct: DaysDiff and Aging of a record whose resolved date is a_cell
LedgerAging ==
    /\ a_ledger = ""
    /\ a_days' = days_since(to_datetime_coerce(a_cell))
    /\ a_ledger' = aging_category(a_days')
    /\ UNCHANGED <<a_cell, a_cash, dateVars, extVars, moneyVars, ccVars, prVars, ledVars>>

\* cash call: Aging of a bulk row whose FLA Date is a_cell
CashcallAging ==
    /\ a_cash = ""
    /\ a_cash' = calculate_aging_cashcall(a_cell)
    /\ UNCHANGED <<a_cell, a_days, a_ledger, dateVars, extVars, moneyVars, ccVars, prVars, ledVars>>

NextAging == LedgerAging \/ CashcallAging

SpecAging == InitAging /\ [][NextAging]_vars

-----------------------------------------------------------------------------
\* C4: for every elapsed-day count d >= 0 each classifier returns a label of
\* its pipeline's bucket list, and every bucket of the list is the label of
\* some d >= 0 (the buckets cover the non-negative integers, none is empty).
C4_AgingPartition ==
    /\ (a_ledger # "" /\ a_cell.kind = "date") => a_ledger \in Range(ALL_AGING_CATEGORIES)
    /\ (a_cash # "" /\ a_cell.kind = "date") => a_cash \in Range(CASHCALL_AGING_LABELS)
    /\ \A b \in Range(ALL_AGING_CATEGORIES) :
          \E d \in 0 .. MaxDays : aging_category(Num(d)) = b
    /\ \A b \in Range(CASHCALL_AGING_LABELS) :
          \E d \in 0 .. MaxDays : calculate_aging_cashcall(DateCell(Today - d)) = b

C4_Witness ==
    /\ a_cell = DateCell(Today - 361)
    /\ a_ledger = "Over 360 days"
    /\ a_cash = "Over 360 days"

\* C5: the ledger ruleset has inclusive upper bounds 90, 120, 180, 360.
C5_LedgerInclusiveBounds ==
    (a_ledger # "" /\ ~IsNa(a_days)) =>
        LET d == Val(a_days) IN
        /\ (d <= 90) => a_ledger = "Within 90days-Credit Term"
        /\ (90 < d /\ d <= 120) => a_ledger = "Over 90 days"
        /\ (120 < d /\ d <= 180) => a_ledger = "Over 120 days"
        /\ (180 < d /\ d <= 360) => a_ledger = "Over 180 days"
        /\ (d > 360) => a_ledger = "Over 360 days"

\* C7: the cash-call ruleset has inclusive upper bounds 30, 60, 90, 120, 180,
\* 360 starting from CURRENT, and a missing or unparsable FLA date is CURRENT.
C7_CashcallRuleset ==
    a_cash # "" =>
        IF a_cell.kind # "date" THEN a_cash = "CURRENT"
        ELSE LET d == Today - a_cell.day IN
             /\ (d <= 30) <=> a_cash = "CURRENT"
             /\ (30 < d /\ d <= 60) <=> a_cash = "Over 30 days"
             /\ (60 < d /\ d <= 90) <=> a_cash = "Over 60 days"
             /\ (90 < d /\ d <= 120) <=> a_cash = "Over 90 days"
             /\ (120 < d /\ d <= 180) <=> a_cash = "Over 120 days"
             /\ (180 < d /\ d <= 360) <=> a_cash = "Over 180 days"
             /\ (d > 360) <=> a_cash = "Over 360 days"

C7_Witness ==
    \/ a_cell = TextCell /\ a_cash = "CURRENT"
    \/ a_cell = DateCell(Today - 30) /\ a_cash = "CURRENT" /\ a_ledger # ""

-----------------------------------------------------------------------------
(* Specification SpecDates: the date columns of one ledger record through    *)
(* extract_soa_direct (lines 116-120 and 130-131)                            *)

\* a plausible slip: the comparison turned round
resolve_incept_swapped(incept, eff) ==
    IF ~IsNa(eff) /\ ~IsNa(incept) /\ Val(incept) <= Val(eff) THEN incept ELSE eff

\* df["Incept Date"].where(df["Eff Date"] <= df["Incept Date"], df["Eff Date"]):
\* the Incept Date is kept where the condition is True, the Eff Date is taken
\* elsewhere; a comparison with NaT is False
resolve_incept(incept, eff) ==
    IF ~IsNa(eff) /\ ~IsNa(incept) /\ Val(eff) <= Val(incept) THEN incept ELSE eff

RecordDays == (Today - DateSpan) .. Today
RecordCells == {EmptyCell, TextCell} \cup {DateCell(d) : d \in RecordDays}

InitDates ==
    /\ d_pc = "raw"
    /\ d_raw \in [Incept : RecordCells, Eff : RecordCells]
    /\ d_Incept = NaT
    /\ d_Eff = NaT
    /\ d_DaysDiff = NaN
    /\ d_Aging = ""
    /\ AgingIdle
    /\ MoneyIdle
    /\ CashcallIdle
    /\ PremiumIdle
    /\ LedgerIdle
    /\ ExtIdle

\* lines 116-117
ParseDates ==
    /\ d_pc = "raw"
    /\ d_Incept' = to_datetime_coerce(d_raw.Incept)
    /\ d_Eff' = to_datetime_coerce(d_raw.Eff)
    /\ d_pc' = "parsed"
    /\ UNCHANGED <<d_raw, d_DaysDiff, d_Aging, agingVars, extVars, moneyVars, ccVars, prVars, ledVars>>

\* lines 118-120
ResolveDate ==
    /\ d_pc = "parsed"
    /\ d_Incept' = resolve_incept(d_Incept, d_Eff)
    /\ d_pc' = "resolved"
    /\ UNCHANGED <<d_raw, d_Eff, d_DaysDiff, d_Aging, agingVars, extVars, moneyVars, ccVars, prVars, ledVars>>

\* lines 130-131
AgeRecord ==
    /\ d_pc = "resolved"
    /\ d_DaysDiff' = days_since(d_Incept)
    /\ d_Aging' = aging_category(d_DaysDiff')
    /\ d_pc' = "aged"
    /\ UNCHANGED <<d_raw, d_Incept, d_Eff, agingVars, extVars, moneyVars, ccVars, prVars, ledVars>>

NextDates == ParseDates \/ ResolveDate \/ AgeRecord

SpecDates == InitDates /\ [][NextDates]_vars

Parses(cell) == cell.kind = "date"

\* C6: a ledger record whose elapsed-day count is null is classified to the
\* first bucket of the ruleset, "Within 90days-Credit Term".
C6_NullDaysFirstBucket ==
    (d_pc = "aged" /\ IsNa(d_DaysDiff)) => d_Aging = ALL_AGING_CATEGORIES[1]

\* C8: when both dates parse the aging-reference date is the Incept Date if
\* Eff Date <= Incept Date and the Eff Date otherwise; when the Incept Date
\* does not parse and the Eff Date does, it is the Eff Date.
C8_DateResolution ==
    d_pc \in {"resolved", "aged"} =>
        /\ (Parses(d_raw.Incept) /\ Parses(d_raw.Eff)) =>
              d_Incept = IF d_raw.Eff.day <= d_raw.Incept.day
                         THEN <<d_raw.Incept.day>> ELSE <<d_raw.Eff.day>>
        /\ (~Parses(d_raw.Incept) /\ Parses(d_raw.Eff)) =>
              d_Incept = <<d_raw.Eff.day>>

C8_Witness ==
    /\ d_pc = "aged"
    /\ d_raw.Incept = EmptyCell
    /\ d_raw.Eff = DateCell(Today - 1)
    /\ d_Incept = <<Today - 1>>

\* C9: after normalization the aging-reference date is non-null whenever at
\* least one of Incept Date and Eff Date parses.
C9_DateAlwaysResolved ==
    (d_pc \in {"resolved", "aged"} /\ (Parses(d_raw.Incept) \/ Parses(d_raw.Eff)))
        => ~IsNa(d_Incept)

-----------------------------------------------------------------------------
(* Specification SpecMoney: one cell of a money column through the coercion  *)
(* of the ledger pipeline and of the cash-call pipeline                      *)

MoneyChars == {"5", "0", ",", " ", "-", "(", ")", "x"}
MoneyCells == SeqsUpTo(MoneyChars, MaxMoneyLen) \cup {NaNCell}

InitMoney ==
    /\ m_cell \in MoneyCells
    /\ m_done = {}
    /\ m_ledger = NaN
    /\ m_cash = NaN
    /\ AgingIdle
    /\ DatesIdle
    /\ CashcallIdle
    /\ PremiumIdle
    /\ LedgerIdle
    /\ ExtIdle

CoerceLedger ==
    /\ m_done \subseteq {"cashcall"}
    /\ m_ledger' = coerce_money_ledger(m_cell)
    /\ m_done' = m_done \cup {"ledger"}
    /\ UNCHANGED <<m_cell, m_cash, agingVars, dateVars, extVars, ccVars, prVars, ledVars>>

CoerceCashcall ==
    /\ m_done \subseteq {"ledger"}
    /\ m_cash' = coerce_amount_cashcall(m_cell)
    /\ m_done' = m_done \cup {"cashcall"}
    /\ UNCHANGED <<m_cell, m_ledger, agingVars, dateVars, extVars, ccVars, prVars, ledVars>>

NextMoney == CoerceLedger \/ CoerceCashcall

SpecMoney == InitMoney /\ [][NextMoney]_vars

\* C10: after normalization every money field is a number, never null, in
\* the ledger pipeline and in the cash-call pipeline; a value that fails the
\* numeric coercion is 0.
C10_MoneyAlwaysNumber ==
    /\ "ledger" \in m_done => ~IsNa(m_ledger)
    /\ "cashcall" \in m_done => ~IsNa(m_cash)

\* the ledger half of C10, which the code does satisfy
C10_LedgerMoneyNumber ==
    "ledger" \in m_done =>
        /\ ~IsNa(m_ledger)
        /\ IsNa(to_numeric_coerce(str_remove(str_strip(astype_str(m_cell)), ",")))
              => m_ledger = Num(0)

-----------------------------------------------------------------------------
(* Reinsurer names and merge configuration shared by the two reinsurer       *)
(* pipelines                                                                 *)

Upper(c) ==
    CASE c = "a" -> "A" [] c = "b" -> "B" [] c = "c" -> "C" [] c = "n" -> "N"
      [] OTHER -> c

\* str(name).strip().upper()
normalize_reinsurer_name(name) ==
    LET t == str_strip(astype_str(name)) IN [i \in DOMAIN t |-> Upper(t[i])]

\* the first group with a member of the same normalized name; << >> is None
find_merge_group(reinsurer_name, merge_list) ==
    LET hits == {g \in DOMAIN merge_list :
                    \E j \in DOMAIN merge_list[g] :
                        normalize_reinsurer_name(merge_list[g][j])
                            = normalize_reinsurer_name(reinsurer_name)}
    IN IF hits = {} THEN << >>
       ELSE merge_list[CHOOSE g \in hits : \A h \in hits : g <= h]

\* merge_cashcall / merge_premium of soa_reinsurer/merge_reinsurers.py: one
\* group of two members; the rename maps are empty
merge_cashcall == << << <<"A">>, <<"B">> >> >>
merge_premium == << << <<"A">>, <<"B">> >> >>
\* rename_map.get(name, name)
rename_get(name) == name

ReinsurerCells == { <<"A">>, <<"a">>, <<"B">>, <<"C">>, <<"c", " ">>, NaNCell }
AmountCells == { <<"5">>, <<"-", "5">>, <<"0">>, <<"x">> }
RawRows == [Reinsurer : ReinsurerCells, Amount : AmountCells]
RawFiles == UNION {[1 .. k -> RawRows] : k \in 1 .. MaxRows}

\* Series.sum(): NaN is skipped
RECURSIVE SumAmount(_)
SumAmount(rows) ==
    IF rows = << >> THEN 0
    ELSE (IF IsNa(Head(rows).Amount) THEN 0 ELSE Val(Head(rows).Amount))
         + SumAmount(Tail(rows))

\* df[df[col] != 0]: NaN != 0 is True, the row stays
NonZeroRows(rows) == SelectSeq(rows, LAMBDA r : r.Amount # Num(0))

\* Series.dropna().unique(): first occurrences, in order
RECURSIVE unique_reinsurers(_)
unique_reinsurers(rows) ==
    IF rows = << >> THEN << >>
    ELSE LET front == unique_reinsurers(SubSeq(rows, 1, Len(rows) - 1))
             x == rows[Len(rows)].Reinsurer
         IN IF x = NaNCell \/ x \in Range(front) THEN front ELSE Append(front, x)

\* rows of df whose normalized Reinsurer is that of group_member
member_data(df, group_member) ==
    SelectSeq(df, LAMBDA r : normalize_reinsurer_name(r.Reinsurer)
                                 = normalize_reinsurer_name(group_member))

\* the (group_member, group_member_data) pairs of the members that have rows
merged_sections(df, merge_group) ==
    SelectSeq([j \in DOMAIN merge_group |->
                  [name |-> merge_group[j], rows |-> member_data(df, merge_group[j])]],
              LAMBDA sec : sec.rows # << >>)

RECURSIVE SumSections(_)
SumSections(secs) ==
    IF secs = << >> THEN 0 ELSE SumAmount(Head(secs).rows) + SumSections(Tail(secs))

-----------------------------------------------------------------------------
(* Specification SpecCashcall: process_cashcall lines 296-400 *)

InitCashcall ==
    /\ cc_pc = "coerce"
    /\ cc_bulk \in RawFiles
    /\ cc_df = << >>
    /\ cc_reinsurers = << >>
    /\ cc_i = 1
    /\ cc_processed = {}
    /\ cc_output = << >>
    /\ AgingIdle
    /\ DatesIdle
    /\ MoneyIdle
    /\ PremiumIdle
    /\ LedgerIdle
    /\ ExtIdle

\* lines 296-327: Total Amount Due to numbers, then the list of reinsurers
CashcallCoerce ==
    /\ cc_pc = "coerce"
    /\ cc_df' = [i \in DOMAIN cc_bulk |->
                    [idx |-> i, Reinsurer |-> cc_bulk[i].Reinsurer,
                     Amount |-> coerce_amount_cashcall(cc_bulk[i].Amount)]]
    /\ cc_reinsurers' = unique_reinsurers(cc_df')
    /\ cc_pc' = "loop"
    /\ UNCHANGED <<cc_bulk, cc_i, cc_processed, cc_output>>
    /\ UNCHANGED <<agingVars, dateVars, extVars, moneyVars, prVars, ledVars>>

\* lines 341-378: the entries (none or one) a merge group adds to output_dfs
cashcall_group_entries(df, merge_group) ==
    LET secs == merged_sections(df, merge_group)
        total_for_merged == SumSections(secs)
        filtered_sections ==
            SelectSeq([j \in DOMAIN secs |->
                          [name |-> secs[j].name, rows |-> NonZeroRows(secs[j].rows)]],
                      LAMBDA sec : sec.rows # << >>)
    IN IF secs # << >> /\ total_for_merged # 0 /\ filtered_sections # << >>
       THEN << [name |-> rename_get(secs[1].name), merged |-> TRUE,
                sections |-> filtered_sections] >>
       ELSE << >>

\* lines 381-397: the entries (none or one) a single reinsurer adds
cashcall_single_entries(df, reinsurer) ==
    LET reinsurer_df == SelectSeq(df, LAMBDA r : r.Reinsurer = reinsurer)
        subtotal == SumAmount(reinsurer_df)
    IN IF subtotal # 0 /\ NonZeroRows(reinsurer_df) # << >>
       THEN << [name |-> reinsurer, merged |-> FALSE,
                sections |-> << [name |-> reinsurer,
                                 rows |-> NonZeroRows(reinsurer_df)] >>] >>
       ELSE << >>

\* lines 330-331
CashcallSkipProcessed ==
    /\ cc_pc = "loop"
    /\ cc_i <= Len(cc_reinsurers)
    /\ normalize_reinsurer_name(cc_reinsurers[cc_i]) \in cc_processed
    /\ cc_i' = cc_i + 1
    /\ UNCHANGED <<cc_pc, cc_bulk, cc_df, cc_reinsurers, cc_processed, cc_output>>
    /\ UNCHANGED <<agingVars, dateVars, extVars, moneyVars, prVars, ledVars>>

\* lines 333-378
CashcallMergeGroup ==
    /\ cc_pc = "loop"
    /\ cc_i <= Len(cc_reinsurers)
    /\ normalize_reinsurer_name(cc_reinsurers[cc_i]) \notin cc_processed
    /\ LET merge_group == find_merge_group(cc_reinsurers[cc_i], merge_cashcall) IN
       /\ merge_group # << >>
       /\ cc_processed' = cc_processed \cup
             {normalize_reinsurer_name(sec.name) :
                 sec \in Range(merged_sections(cc_df, merge_group))}
       /\ cc_output' = cc_output \o cashcall_group_entries(cc_df, merge_group)
    /\ cc_i' = cc_i + 1
    /\ UNCHANGED <<cc_pc, cc_bulk, cc_df, cc_reinsurers>>
    /\ UNCHANGED <<agingVars, dateVars, extVars, moneyVars, prVars, ledVars>>

\* lines 333, 379-397
CashcallSingle ==
    /\ cc_pc = "loop"
    /\ cc_i <= Len(cc_reinsurers)
    /\ normalize_reinsurer_name(cc_reinsurers[cc_i]) \notin cc_processed
    /\ find_merge_group(cc_reinsurers[cc_i], merge_cashcall) = << >>
    /\ cc_processed' = cc_processed \cup {normalize_reinsurer_name(cc_reinsurers[cc_i])}
    /\ cc_output' = cc_output \o cashcall_single_entries(cc_df, cc_reinsurers[cc_i])
    /\ cc_i' = cc_i + 1
    /\ UNCHANGED <<cc_pc, cc_bulk, cc_df, cc_reinsurers>>
    /\ UNCHANGED <<agingVars, dateVars, extVars, moneyVars, prVars, ledVars>>

\* lines 399-400
CashcallReturn ==
    /\ cc_pc = "loop"
    /\ cc_i > Len(cc_reinsurers)
    /\ cc_pc' = "done"
    /\ UNCHANGED <<cc_bulk, cc_df, cc_reinsurers, cc_i, cc_processed, cc_output>>
    /\ UNCHANGED <<agingVars, dateVars, extVars, moneyVars, prVars, ledVars>>

NextCashcall ==
    \/ CashcallCoerce
    \/ CashcallSkipProcessed
    \/ CashcallMergeGroup
    \/ CashcallSingle
    \/ CashcallReturn

SpecCashcall == InitCashcall /\ [][NextCashcall]_vars

\* entries of an output list that belong to a merge group / to a single name
GroupEntries(out, merge_group) ==
    {k \in DOMAIN out :
        out[k].merged /\ \A j \in DOMAIN out[k].sections :
                            out[k].sections[j].name \in Range(merge_group)}
SingleEntries(out, reinsurer) ==
    {k \in DOMAIN out : ~out[k].merged /\ out[k].name = reinsurer}

\* rows of a merge group: rows whose normalized name is that of a member
GroupRows(df, merge_group) ==
    SelectSeq(df, LAMBDA r : \E j \in DOMAIN merge_group :
                     normalize_reinsurer_name(r.Reinsurer)
                         = normalize_reinsurer_name(merge_group[j]))
NameRows(df, reinsurer) == SelectSeq(df, LAMBDA r : r.Reinsurer = reinsurer)

\* C2: in process_cashcall a merge group or a single reinsurer whose Total
\* Amount Due values sum to exactly 0 contributes no entry to the output
\* list, and one whose sum is nonzero contributes exactly one entry.
C2_CashcallZeroSkip ==
    cc_pc = "done" =>
        /\ \A g \in DOMAIN merge_cashcall :
              LET rows == GroupRows(cc_df, merge_cashcall[g]) IN
              rows # << >> =>
                 Cardinality(GroupEntries(cc_output, merge_cashcall[g]))
                    = IF SumAmount(rows) = 0 THEN 0 ELSE 1
        /\ \A reinsurer \in Range(cc_reinsurers) :
              find_merge_group(reinsurer, merge_cashcall) = << >> =>
                 Cardinality(SingleEntries(cc_output, reinsurer))
                    = IF SumAmount(NameRows(cc_df, reinsurer)) = 0 THEN 0 ELSE 1

-----------------------------------------------------------------------------
(* Specification SpecPremium: process_premium lines 604-687 *)

InitPremium ==
    /\ pr_pc = "coerce"
    /\ pr_raw \in RawFiles
    /\ pr_df = << >>
    /\ pr_reinsurers = << >>
    /\ pr_i = 1
    /\ pr_processed = {}
    /\ pr_output = << >>
    /\ AgingIdle
    /\ DatesIdle
    /\ MoneyIdle
    /\ CashcallIdle
    /\ LedgerIdle
    /\ ExtIdle

\* lines 604-621: Balance Due to numbers, rows with Balance Due = 0 removed
\* (the index is kept), then the list of reinsurers
PremiumCoerce ==
    /\ pr_pc = "coerce"
    /\ pr_df' = NonZeroRows([i \in DOMAIN pr_raw |->
                    [idx |-> i, Reinsurer |-> pr_raw[i].Reinsurer,
                     Amount |-> coerce_balance_premium(pr_raw[i].Amount)]])
    /\ pr_reinsurers' = unique_reinsurers(pr_df')
    /\ pr_pc' = "loop"
    /\ UNCHANGED <<pr_raw, pr_i, pr_processed, pr_output>>
    /\ UNCHANGED <<agingVars, dateVars, extVars, moneyVars, ccVars, ledVars>>

\* a plausible slip: the zero test made on the group total, as the cash-call
\* pipeline does
premium_group_entries_total(df, merge_group) ==
    LET secs == merged_sections(df, merge_group) IN
    IF secs # << >> /\ SumSections(secs) # 0
    THEN << [name |-> rename_get(secs[1].name), merged |-> TRUE, sections |-> secs] >>
    ELSE << >>

\* lines 632-664: the entries (none or one) a merge group adds to output_dfs;
\* a member is kept when its own subtotal is not 0
premium_group_entries(df, merge_group) ==
    LET secs == merged_sections(df, merge_group)
        kept == SelectSeq(secs, LAMBDA sec : SumAmount(sec.rows) # 0)
    IN IF kept # << >> /\ secs # << >>
       THEN << [name |-> rename_get(secs[1].name), merged |-> TRUE, sections |-> kept] >>
       ELSE << >>

\* lines 666-685: the entries (none or one) a single reinsurer adds
premium_single_entries(df, reinsurer) ==
    LET reinsurer_df == SelectSeq(df, LAMBDA r : r.Reinsurer = reinsurer) IN
    IF SumAmount(reinsurer_df) = 0 THEN << >>
    ELSE << [name |-> reinsurer, merged |-> FALSE,
             sections |-> << [name |-> reinsurer, rows |-> reinsurer_df] >>] >>

\* lines 623-627
PremiumSkipProcessed ==
    /\ pr_pc = "loop"
    /\ pr_i <= Len(pr_reinsurers)
    /\ normalize_reinsurer_name(pr_reinsurers[pr_i]) \in pr_processed
    /\ pr_i' = pr_i + 1
    /\ UNCHANGED <<pr_pc, pr_raw, pr_df, pr_reinsurers, pr_processed, pr_output>>
    /\ UNCHANGED <<agingVars, dateVars, extVars, moneyVars, ccVars, ledVars>>

\* lines 629-664
PremiumMergeGroup ==
    /\ pr_pc = "loop"
    /\ pr_i <= Len(pr_reinsurers)
    /\ normalize_reinsurer_name(pr_reinsurers[pr_i]) \notin pr_processed
    /\ LET merge_group == find_merge_group(pr_reinsurers[pr_i], merge_premium) IN
       /\ merge_group # << >>
       /\ pr_processed' = pr_processed \cup
             {normalize_reinsurer_name(sec.name) :
                 sec \in Range(merged_sections(pr_df, merge_group))}
       /\ pr_output' = pr_output \o premium_group_entries(pr_df, merge_group)
    /\ pr_i' = pr_i + 1
    /\ UNCHANGED <<pr_pc, pr_raw, pr_df, pr_reinsurers>>
    /\ UNCHANGED <<agingVars, dateVars, extVars, moneyVars, ccVars, ledVars>>

\* lines 629, 665-685
PremiumSingle ==
    /\ pr_pc = "loop"
    /\ pr_i <= Len(pr_reinsurers)
    /\ normalize_reinsurer_name(pr_reinsurers[pr_i]) \notin pr_processed
    /\ find_merge_group(pr_reinsurers[pr_i], merge_premium) = << >>
    /\ pr_processed' = pr_processed \cup {normalize_reinsurer_name(pr_reinsurers[pr_i])}
    /\ pr_output' = pr_output \o premium_single_entries(pr_df, pr_reinsurers[pr_i])
    /\ pr_i' = pr_i + 1
    /\ UNCHANGED <<pr_pc, pr_raw, pr_df, pr_reinsurers>>
    /\ UNCHANGED <<agingVars, dateVars, extVars, moneyVars, ccVars, ledVars>>

\* line 687
PremiumReturn ==
    /\ pr_pc = "loop"
    /\ pr_i > Len(pr_reinsurers)
    /\ pr_pc' = "done"
    /\ UNCHANGED <<pr_raw, pr_df, pr_reinsurers, pr_i, pr_processed, pr_output>>
    /\ UNCHANGED <<agingVars, dateVars, extVars, moneyVars, ccVars, ledVars>>

NextPremium ==
    \/ PremiumCoerce
    \/ PremiumSkipProcessed
    \/ PremiumMergeGroup
    \/ PremiumSingle
    \/ PremiumReturn

SpecPremium == InitPremium /\ [][NextPremium]_vars

places_of(out, idx) ==
    {<<k, j, i>> \in UNION {UNION {{<<k, j, i>> : i \in DOMAIN out[k].sections[j].rows} :
                                     j \in DOMAIN out[k].sections} : k \in DOMAIN out} :
        out[k].sections[j].rows[i].idx = idx}

\* the rows of df the claim C28 speaks of: Reinsurer present, amount a number
\* other than 0, and a nonzero total of the row's merge group or, outside
\* every group, of the rows of the same reinsurer name
owed_rows(df, merge_list) ==
    SelectSeq(df, LAMBDA r :
        /\ r.Reinsurer # NaNCell
        /\ ~IsNa(r.Amount)
        /\ r.Amount # Num(0)
        /\ IF find_merge_group(r.Reinsurer, merge_list) # << >>
           THEN SumAmount(GroupRows(df, find_merge_group(r.Reinsurer, merge_list))) # 0
           ELSE SumAmount(NameRows(df, r.Reinsurer)) # 0)

\* C28: in process_cashcall and process_premium every row with a non-null
\* Reinsurer and a nonzero amount, whose reinsurer or merge group has a
\* nonzero total, is in exactly one output entry, also when two names outside
\* every merge group differ only in letter case or surrounding whitespace
\* (the rows emitted then do not depend on which name comes first).
C28_EveryOwedRowOnce ==
    /\ cc_pc = "done" =>
          \A r \in Range(owed_rows(cc_df, merge_cashcall)) :
              Cardinality(places_of(cc_output, r.idx)) = 1
    /\ pr_pc = "done" =>
          \A r \in Range(owed_rows(pr_df, merge_premium)) :
              Cardinality(places_of(pr_output, r.idx)) = 1

-----------------------------------------------------------------------------
(* Text order and the calendar, for the sort and the groupby of the ledger   *)
(* pipeline                                                                  *)

\* code points of the characters the model's texts use
Ord(c) ==
    CASE c = " " -> 32 [] c = "&" -> 38 [] c = "," -> 44 [] c = "-" -> 45
      [] c = "." -> 46 [] c = "0" -> 48 [] c = "5" -> 53
      [] c = "A" -> 65 [] c = "B" -> 66 [] c = "C" -> 67 [] c = "H" -> 72
      [] c = "K" -> 75 [] c = "P" -> 80 [] c = "Q" -> 81
      [] c = "a" -> 97 [] c = "b" -> 98 [] c = "c" -> 99 [] c = "n" -> 110
      [] OTHER -> 120

\* Python's order of two texts
RECURSIVE TextLess(_, _)
TextLess(s, t) ==
    IF t = << >> THEN FALSE
    ELSE IF s = << >> THEN TRUE
    ELSE IF Ord(Head(s)) # Ord(Head(t)) THEN Ord(Head(s)) < Ord(Head(t))
    ELSE TextLess(Tail(s), Tail(t))

\* order of two tuples of numbers (the order of two "%m/%d/%Y" texts)
RECURSIVE TupleLess(_, _)
TupleLess(s, t) ==
    IF t = << >> THEN FALSE
    ELSE IF s = << >> THEN TRUE
    ELSE IF Head(s) # Head(t) THEN Head(s) < Head(t)
    ELSE TupleLess(Tail(s), Tail(t))

IsLeap(y) == (y % 4 = 0 /\ y % 100 # 0) \/ y % 400 = 0
YearLen(y) == IF IsLeap(y) THEN 366 ELSE 365
MonthLen(y, m) ==
    IF m = 2 THEN (IF IsLeap(y) THEN 29 ELSE 28)
    ELSE IF m \in {4, 6, 9, 11} THEN 30 ELSE 31

RECURSIVE MonthDay(_, _, _)
MonthDay(y, m, rest) ==
    IF rest < MonthLen(y, m) THEN <<m, rest + 1, y>>
    ELSE MonthDay(y, m + 1, rest - MonthLen(y, m))

RECURSIVE YearDay(_, _)
YearDay(y, rest) ==
    IF rest < YearLen(y) THEN MonthDay(y, 1, rest) ELSE YearDay(y + 1, rest - YearLen(y))

\* Series.dt.strftime("%m/%d/%Y") as <<month, day, year>>, NaN for NaT;
\* day number 0 is 01/01/2000
strftime_mdy(date) == IF IsNa(date) THEN NaN ELSE YearDay(2000, Val(date))

-----------------------------------------------------------------------------
(* Filename prefixes of the ledger pipeline: make_prefix (lines 37-64) and   *)
(* the texts pass 2 derives from a name and a branch (lines 452-453)         *)

Letters ==
    { "A", "B", "C", "D", "E", "F", "G", "H", "I", "J", "K", "L", "M", "N", "O",
      "P", "Q", "R", "S", "T", "U", "V", "W", "X", "Y", "Z",
      "a", "b", "c", "d", "e", "f", "g", "h", "i", "j", "k", "l", "m", "n", "o",
      "p", "q", "r", "s", "t", "u", "v", "w", "x", "y", "z" }

\* the class [A-Za-z0-9]
IsAlnum(c) == c \in Letters \cup Digits

\* the class [0-9A-Za-z...,& ] of line 57 (accented letters included)
IsPrefixChar(c) == IsAlnum(c) \/ c \in {",", "&", " "}

\* suffixes of line 40
NameSuffixes ==
    { <<"J", "R">>, <<"J", "R", ".">>, <<"S", "R">>, <<"S", "R", ".">>,
      <<"I", "I", "I">>, <<"I", "V">>, <<"V">> }

\* str.upper()
upper(s) == [i \in DOMAIN s |-> Upper(s[i])]

\* str.strip(c) for one character c
RECURSIVE strip_char(_, _)
strip_char(s, c) ==
    IF s = << >> THEN s
    ELSE IF Head(s) = c THEN strip_char(Tail(s), c)
    ELSE IF s[Len(s)] = c THEN strip_char(SubSeq(s, 1, Len(s) - 1), c)
    ELSE s

\* position of the first c in s, 0 when there is none
index_of(s, c) ==
    IF \E i \in DOMAIN s : s[i] = c
    THEN CHOOSE i \in DOMAIN s : s[i] = c /\ \A j \in 1 .. i - 1 : s[j] # c
    ELSE 0

\* F(e) with e evaluated once: a LET definition and an operator argument are
\* evaluated again at every use
Let(e, F(_)) == CHOOSE r \in {F(x) : x \in {e}} : TRUE

\* the end of the word that starts at position i of t
RECURSIVE word_end(_, _)
word_end(t, i) ==
    IF i < Len(t) /\ ~IsSpace(t[i + 1]) THEN word_end(t, i + 1) ELSE i

\* str.split(): the words between runs of whitespace
RECURSIVE split_ws(_)
split_ws(s) ==
    Let(lstrip(s), LAMBDA t :
        IF t = << >> THEN << >>
        ELSE <<SubSeq(t, 1, word_end(t, 1))>>
                 \o split_ws(SubSeq(t, word_end(t, 1) + 1, Len(t))))

\* sep.join(words)
RECURSIVE join(_, _)
join(words, sep) ==
    IF words = << >> THEN << >>
    ELSE IF Len(words) = 1 THEN words[1]
    ELSE words[1] \o sep \o join(Tail(words), sep)

\* re.sub(r"(\S+)\s*&\s*(\S+)", r"\1_&_\2", name) on a text with at most one
\* "&": the "&" and the whitespace around it become "_&_" when a non-space
\* character stands on each side
amp_join(s) ==
    Let(index_of(s, "&"), LAMBDA p :
        Let(<< {i \in 1 .. p - 1 : ~IsSpace(s[i])},
               {i \in p + 1 .. Len(s) : ~IsSpace(s[i])} >>, LAMBDA side :
            IF p = 0 \/ side[1] = {} \/ side[2] = {} THEN s
            ELSE SubSeq(s, 1, CHOOSE i \in side[1] : \A j \in side[1] : j <= i)
                   \o <<"_", "&", "_">>
                   \o SubSeq(s, CHOOSE i \in side[2] : \A j \in side[2] : i <= j, Len(s))))

\* prefix.replace("_&_", " & ")
RECURSIVE amp_split(_)
amp_split(s) ==
    IF s = << >> THEN s
    ELSE IF Len(s) >= 3 /\ SubSeq(s, 1, 3) = <<"_", "&", "_">>
         THEN <<" ", "&", " ">> \o amp_split(SubSeq(s, 4, Len(s)))
    ELSE <<Head(s)>> \o amp_split(Tail(s))

\* re.sub(r"[^A-Za-z0-9]", "", s)
alnum_only(s) == SelectSeq(s, IsAlnum)

\* s[:n]
take(s, n) == SubSeq(s, 1, IF Len(s) < n THEN Len(s) ELSE n)

\* lines 42-48: "surname, firstname" of a name with a comma
comma_prefix(name) ==
    Let(index_of(name, ","), LAMBDA i :
        Let(SelectSeq(split_ws(str_strip(SubSeq(name, i + 1, Len(name)))),
                      LAMBDA w : strip_char(upper(w), ".") \notin NameSuffixes),
            LAMBDA firstname_parts :
                str_strip(str_strip(SubSeq(name, 1, i - 1)) \o <<",", " ">>
                    \o (IF firstname_parts = << >> THEN << >> ELSE firstname_parts[1]))))

\* lines 52-53: a trailing suffix word is dropped
drop_suffix(words) ==
    IF words # << >> /\ strip_char(upper(words[Len(words)]), ".") \in NameSuffixes
    THEN SubSeq(words, 1, Len(words) - 1) ELSE words

\* lines 50-55: the first two words of a name without a comma
words_prefix(name) ==
    Let(split_ws(amp_join(name)), LAMBDA all_words :
        Let(drop_suffix(all_words), LAMBDA words :
            amp_split(join(take(words, 2), <<" ">>))))

\* make_prefix, lines 37-64
make_prefix(name0) ==
    Let(str_strip(astype_str(name0)), LAMBDA name :
        Let(SelectSeq(IF index_of(name, ",") # 0 THEN comma_prefix(name)
                      ELSE words_prefix(name), IsPrefixChar),
            LAMBDA prefix :
                IF prefix = << >> THEN take(alnum_only(name), 10) ELSE prefix))

\* line 452: the last word of the name without its non-alphanumeric characters
last_word(name) ==
    IF name = << >> THEN <<"X">>
    ELSE Let(split_ws(name), LAMBDA words : alnum_only(words[Len(words)]))

\* line 453: str(branch).strip() without the characters outside [A-Za-z0-9 ]
branch_clean(branch) ==
    SelectSeq(str_strip(astype_str(branch)), LAMBDA c : IsAlnum(c) \/ c = " ")

\* str(n) of a count
RECURSIVE str_int(_)
str_int(n) ==
    LET d == <<"0", "1", "2", "3", "4", "5", "6", "7", "8", "9">>
    IN IF n < 10 THEN <<d[n + 1]>> ELSE str_int(n \div 10) \o <<d[(n % 10) + 1]>>

-----------------------------------------------------------------------------
(* Merge configuration of the ledger pipeline *)

\* ACCOUNTS_TO_MERGE of soa_direct/merge_and_agent.py, in its list-of-groups
\* form: the first name of a group is its master
ACCOUNTS_TO_MERGE == << << <<"A">>, <<"B">> >> >>

\* the dict merge_groups of _build_merge_maps, as the sequence of its items:
\* a group whose master is already a key replaces that key's aliases
RECURSIVE build_merge_groups(_)
build_merge_groups(source) ==
    IF source = << >> THEN << >>
    ELSE LET front == build_merge_groups(SubSeq(source, 1, Len(source) - 1))
             grp == source[Len(source)]
             item == [master |-> str_strip(grp[1]),
                      aliases |-> [i \in DOMAIN grp |-> str_strip(grp[i])]]
         IN IF grp = << >> THEN front
            ELSE IF \E i \in DOMAIN front : front[i].master = item.master
                 THEN [i \in DOMAIN front |->
                          IF front[i].master = item.master THEN item ELSE front[i]]
            ELSE Append(front, item)

merge_groups_map == build_merge_groups(ACCOUNTS_TO_MERGE)

\* the keys of alias_to_master
alias_names == UNION {Range(merge_groups_map[g].aliases) : g \in DOMAIN merge_groups_map}

\* lines 85-88 on any merge_groups: for every alias the master of the last
\* group listing it, since the assignment of a later group overwrites
build_alias_to_master(groups) ==
    LET names == UNION {Range(groups[g].aliases) : g \in DOMAIN groups}
    IN [a \in names |->
          LET gs == {g \in DOMAIN groups : a \in Range(groups[g].aliases)}
          IN groups[CHOOSE g \in gs : \A h \in gs : h <= g].master]

\* alias_to_master[alias]
alias_to_master == build_alias_to_master(merge_groups_map)

-----------------------------------------------------------------------------
(* Specification SpecMerge: the merge-group lookup of one entity name under  *)
(* one merge configuration, as the ledger pipeline does it (_build_merge_maps,*)
(* the pass-1 selection of line 302, the pass-2 test of lines 395-396) and   *)
(* as the reinsurer pipelines do it (find_merge_group)                       *)

\* line 395: str(name).strip() or "UNNAMED"
safe_name(name) ==
    IF str_strip(astype_str(name)) = << >>
    THEN <<"U", "N", "N", "A", "M", "E", "D">> ELSE str_strip(astype_str(name))

MaxGroups == 2
MaxGroupLen == 2

\* names a configuration lists, and names a record carries
MergeMembers == { <<"A">>, <<"B">>, <<"C">> }
MergeNames == { <<"A">>, <<"a">>, <<"B">>, <<" ", "B">>, <<"A", "B">>, <<"C">> }
MergeGroupsOf == UNION {[1 .. k -> MergeMembers] : k \in 0 .. MaxGroupLen}
MergeConfigs == UNION {[1 .. k -> MergeGroupsOf] : k \in 1 .. MaxGroups}

InitMerge ==
    /\ g_pc = "config"
    /\ g_source \in MergeConfigs
    /\ g_name \in MergeNames
    /\ g_groups = << >>
    /\ g_alias = {}
    /\ g_pass1 = << >>
    /\ g_pass2 = ""
    /\ g_find = ""
    /\ AgingIdle
    /\ DatesIdle
    /\ MoneyIdle
    /\ CashcallIdle
    /\ PremiumIdle
    /\ LedgerIdle
    /\ SummaryIdle
    /\ LaterIdle

\* lines 66-90: alias_to_master is kept as the set of its (alias, master)
\* items
BuildMergeMaps ==
    /\ g_pc = "config"
    /\ g_groups' = build_merge_groups(g_source)
    /\ g_alias' = LET m == build_alias_to_master(g_groups')
                  IN {<<a, m[a]>> : a \in DOMAIN m}
    /\ g_pc' = "pass1"
    /\ UNCHANGED <<g_source, g_name, g_pass1, g_pass2, g_find>>
    /\ UNCHANGED <<agingVars, dateVars, moneyVars, ccVars, prVars, ledVars, summaryVars, laterVars>>

\* lines 301-304 for every group: the masters whose document takes a record
\* whose Intermediary is g_name
Pass1Membership ==
    /\ g_pc = "pass1"
    /\ g_pass1' = LET hit == SelectSeq(g_groups, LAMBDA grp :
                                 str_strip(astype_str(g_name)) \in Range(grp.aliases))
                  IN [i \in DOMAIN hit |-> hit[i].master]
    /\ g_pc' = "pass2"
    /\ UNCHANGED <<g_source, g_name, g_groups, g_alias, g_pass2, g_find>>
    /\ UNCHANGED <<agingVars, dateVars, moneyVars, ccVars, prVars, ledVars, summaryVars, laterVars>>

\* lines 395-397: pass 2 skips the name when it is a key of alias_to_master
Pass2AliasTest ==
    /\ g_pc = "pass2"
    /\ g_pass2' = IF \E am \in g_alias : am[1] = safe_name(g_name)
                  THEN "skip" ELSE "emit"
    /\ g_pc' = "find"
    /\ UNCHANGED <<g_source, g_name, g_groups, g_alias, g_pass1, g_find>>
    /\ UNCHANGED <<agingVars, dateVars, moneyVars, ccVars, prVars, ledVars, summaryVars, laterVars>>

\* find_merge_group(g_name, g_source): "group" when a group is returned,
\* "None" otherwise
ReinsurerFind ==
    /\ g_pc = "find"
    /\ g_find' = IF find_merge_group(g_name, g_source) = << >> THEN "None" ELSE "group"
    /\ g_pc' = "done"
    /\ UNCHANGED <<g_source, g_name, g_groups, g_alias, g_pass1, g_pass2>>
    /\ UNCHANGED <<agingVars, dateVars, moneyVars, ccVars, prVars, ledVars, summaryVars, laterVars>>

NextMerge == BuildMergeMaps \/ Pass1Membership \/ Pass2AliasTest \/ ReinsurerFind

SpecMerge == InitMerge /\ [][NextMerge]_vars

\* C11: when an alias is listed under two merge groups it belongs to the
\* first one registered only: alias_to_master maps it to the first group's
\* master, and a record of that name is collected into the first group's
\* document and into no other.
C11_FirstRegisteredWins ==
    g_pc = "done" =>
        \A a \in MergeMembers :
            LET gs == {g \in DOMAIN g_groups : a \in Range(g_groups[g].aliases)}
                first == g_groups[CHOOSE g \in gs : \A h \in gs : g <= h].master
            IN Cardinality(gs) >= 2 =>
                  /\ <<a, first>> \in g_alias
                  /\ str_strip(g_name) = a => g_pass1 = <<first>>

\* C12: the lookup ignores letter case and surrounding whitespace and is
\* otherwise exact, and the ledger pipeline (pass-1 selection, pass-2 alias
\* test) and the reinsurer pipelines (find_merge_group) agree on whether the
\* name belongs to a group of the configuration.
C12_LookupInsensitiveAndSame ==
    g_pc = "done" =>
        LET listed == \E g \in DOMAIN g_source : \E j \in DOMAIN g_source[g] :
                         normalize_reinsurer_name(g_source[g][j])
                             = normalize_reinsurer_name(g_name)
        IN /\ (g_find = "group") <=> listed
           /\ (g_pass1 # << >>) <=> listed
           /\ (g_pass2 = "skip") <=> listed

-----------------------------------------------------------------------------
(* Specification SpecLedger: extract_soa_direct *)

LedgerBranches == { <<"H">>, <<"K">> }
LedgerNames == { <<"A">>, <<"B">>, <<"C">>, <<"A", ".">> }
LedgerBalances == { <<"5">>, <<"-", "5">> }
\* the Assured Name and the two date cells of a row
LedgerDated ==
    { [Assured |-> <<"Q">>, Incept |-> DateCell(Today - 120), Eff |-> DateCell(Today - 121)],
      [Assured |-> <<"P">>, Incept |-> EmptyCell, Eff |-> DateCell(Today - 1)] }
LedgerRows ==
    { [Branch |-> b, Intermediary |-> n, Assured |-> d.Assured, Incept |-> d.Incept,
       Eff |-> d.Eff, Balance |-> m] :
         b \in LedgerBranches, n \in LedgerNames, d \in LedgerDated, m \in LedgerBalances }
LedgerRowSeqs == UNION {[1 .. k -> LedgerRows] : k \in 1 .. MaxLedgerRows}
\* no file, one file, or the same rows uploaded as two files
LedgerInputs ==
    { << >> } \cup { <<f>> : f \in LedgerRowSeqs }
    \cup { <<SubSeq(f, 1, 1), SubSeq(f, 2, Len(f))>> :
              f \in {g \in LedgerRowSeqs : Len(g) >= 2} }

InitLedger ==
    /\ l_pc = "read"
    /\ l_files \in LedgerInputs
    /\ l_df = << >>
    /\ l_k = 1
    /\ l_keys = << >>
    /\ l_j = 1
    /\ l_excel_files = << >>
    /\ l_zip = << >>
    /\ l_used = {}
    /\ l_result = ""
    /\ AgingIdle
    /\ DatesIdle
    /\ MoneyIdle
    /\ CashcallIdle
    /\ PremiumIdle
    /\ ExtIdle

\* pd.concat(combined_rows, ignore_index=True)
RECURSIVE concat(_)
concat(frames) == IF frames = << >> THEN << >> ELSE Head(frames) \o concat(Tail(frames))

\* lines 116-120, 130-132, 145-152 on one row; rec is the row's position in
\* the concatenated input
normalize_row(row, rec) ==
    LET date == resolve_incept(to_datetime_coerce(row.Incept), to_datetime_coerce(row.Eff))
    IN [rec |-> rec, Branch |-> row.Branch, Intermediary |-> row.Intermediary,
        Assured |-> row.Assured, Incept |-> strftime_mdy(date),
        Aging |-> aging_category(days_since(date)),
        Balance |-> coerce_money_ledger(row.Balance)]

\* the sort key of line 155: Assured Name, then the Incept Date text; NaN last
SortKeyLess(r, q) ==
    IF r.Assured # q.Assured
    THEN r.Assured # NaNCell /\ (q.Assured = NaNCell \/ TextLess(r.Assured, q.Assured))
    ELSE r.Incept # q.Incept
         /\ ~IsNa(r.Incept) /\ (IsNa(q.Incept) \/ TupleLess(r.Incept, q.Incept))

\* stable insertion of row r into the sorted sequence
RECURSIVE insert_sorted(_, _)
insert_sorted(sorted, r) ==
    IF sorted = << >> THEN <<r>>
    ELSE IF SortKeyLess(r, sorted[Len(sorted)])
         THEN Append(insert_sorted(SubSeq(sorted, 1, Len(sorted) - 1), r), sorted[Len(sorted)])
    ELSE Append(sorted, r)

\* DataFrame.sort_values(by=["Assured Name", "Incept Date"])
RECURSIVE sort_values(_)
sort_values(rows) ==
    IF rows = << >> THEN << >>
    ELSE insert_sorted(sort_values(SubSeq(rows, 1, Len(rows) - 1)), rows[Len(rows)])

\* lines 110-155
LedgerNormalize ==
    /\ l_pc = "read"
    /\ l_files # << >>
    /\ LET all == concat(l_files) IN
       l_df' = sort_values([i \in DOMAIN all |-> normalize_row(all[i], i)])
    /\ l_pc' = "pass1"
    /\ UNCHANGED <<l_files, l_k, l_keys, l_j, l_excel_files, l_zip, l_used, l_result>>
    /\ UNCHANGED <<agingVars, dateVars, extVars, moneyVars, ccVars, prVars>>

\* lines 123-127: no file read, an empty archive is written and the
\* (zip_filename, basename, temp_dir) triple is returned
LedgerNoInput ==
    /\ l_pc = "read"
    /\ l_files = << >>
    /\ l_zip' = << >>
    /\ l_pc' = "done"
    /\ l_result' = "triple"
    /\ UNCHANGED <<l_files, l_df, l_k, l_keys, l_j, l_excel_files, l_used>>
    /\ UNCHANGED <<agingVars, dateVars, extVars, moneyVars, ccVars, prVars>>

\* Series.sum() of Balance Due
RECURSIVE SumBalance(_)
SumBalance(rows) ==
    IF rows = << >> THEN 0 ELSE Val(Head(rows).Balance) + SumBalance(Tail(rows))

\* sorted sequence of a set of texts / of (Branch, Intermediary) keys
RECURSIVE SortedTexts(_)
SortedTexts(S) ==
    IF S = {} THEN << >>
    ELSE LET m == CHOOSE x \in S : \A y \in S \ {x} : TextLess(x, y)
         IN <<m>> \o SortedTexts(S \ {m})

KeyLess(k, h) == IF k[1] # h[1] THEN TextLess(k[1], h[1]) ELSE TextLess(k[2], h[2])

RECURSIVE SortedKeys(_)
SortedKeys(S) ==
    IF S = {} THEN << >>
    ELSE LET m == CHOOSE x \in S : \A y \in S \ {x} : KeyLess(x, y)
         IN <<m>> \o SortedKeys(S \ {m})

\* line 302: the rows whose stripped Intermediary is one of the aliases
merged_rows(df, aliases) ==
    SelectSeq(df, LAMBDA r : str_strip(astype_str(r.Intermediary)) \in Range(aliases))

\* line 380: list(merged_rows.groupby("Branch")), rows without Branch left out
branch_groups(rows) ==
    LET keys == SortedTexts({rows[i].Branch : i \in DOMAIN rows} \ {NaNCell})
    IN [n \in DOMAIN keys |->
           [branch |-> keys[n],
            rows |-> SelectSeq(rows, LAMBDA r : r.Branch = keys[n])]]

\* a plausible slip: groupby(..., sort=False), the keys in the order of their
\* first rows
groupby_keys_unsorted(df) ==
    LET first == SelectSeq([i \in DOMAIN df |-> i], LAMBDA i :
                     /\ df[i].Branch # NaNCell
                     /\ df[i].Intermediary # NaNCell
                     /\ \A j \in 1 .. i - 1 :
                           <<df[j].Branch, df[j].Intermediary>>
                              # <<df[i].Branch, df[i].Intermediary>>)
    IN [n \in DOMAIN first |-> <<df[first[n]].Branch, df[first[n]].Intermediary>>]

\* line 394: the keys of df_all.groupby(["Branch", "Intermediary"])
groupby_keys(df) ==
    SortedKeys({<<df[i].Branch, df[i].Intermediary>> : i \in DOMAIN df}
                 \ {k \in {<<df[i].Branch, df[i].Intermediary>> : i \in DOMAIN df} :
                        k[1] = NaNCell \/ k[2] = NaNCell})

group_rows(df, key) ==
    SelectSeq(df, LAMBDA r : r.Branch = key[1] /\ r.Intermediary = key[2])

\* agent_folders of soa_direct/merge_and_agent.py (INTERMEDIARY_TO_AGENT), as
\* its (name, folder) items
INTERMEDIARY_TO_AGENT ==
    { << <<"A">>, <<"X">> >>, << <<"C", " ", "V">>, <<"X">> >> }

\* lines 314-318 / 466-470: the agent folder of the name under AGENT, << >>
\* for temp_dir itself
target_folder(name) ==
    IF \E na \in INTERMEDIARY_TO_AGENT : na[1] = name /\ na[2] # << >>
    THEN (CHOOSE na \in INTERMEDIARY_TO_AGENT : na[1] = name)[2]
    ELSE << >>

\* "_SOA as of {date_str}.xlsx"
FileSuffix == <<"_SOA as of date_str.xlsx">>

\* used_prefixes is a set of entries [prefix, count, branches]: count > 0 is
\* the int pass 1 stores under the prefix; count = 0 says that pass 2 stored
\* a dict, whose (branch_clean, count) items are in branches
used_has(used, prefix) == \E u \in used : u.prefix = prefix
used_get(used, prefix) == CHOOSE u \in used : u.prefix = prefix

\* lines 306-312: filename_prefix of a merged master and the new used_prefixes
pass1_prefix(used, master) ==
    LET prefix == make_prefix(master) IN
    IF ~used_has(used, prefix)
    THEN [filename_prefix |-> prefix,
          used |-> used \cup {[prefix |-> prefix, count |-> 1, branches |-> {}]}]
    ELSE LET u == used_get(used, prefix) IN
         [filename_prefix |-> prefix \o <<"_">> \o str_int(u.count + 1),
          used |-> (used \ {u}) \cup {[u EXCEPT !.count = u.count + 1]}]

\* lines 451-464: filename_prefix of a non-merged entity and the new
\* used_prefixes; `branch_clean not in used_prefixes[prefix]` raises TypeError
\* when pass 1 stored an int under the prefix
pass2_prefix(used, name, branch) ==
    LET prefix == make_prefix(name)
        bc == branch_clean(branch)
        u == used_get(used, prefix)
        cnt == (CHOOSE b \in u.branches : b[1] = bc)[2] + 1
    IN IF ~used_has(used, prefix)
       THEN [raises |-> FALSE, filename_prefix |-> prefix,
             used |-> used \cup {[prefix |-> prefix, count |-> 0,
                                  branches |-> {<<bc, 1>>}]}]
       ELSE IF u.count > 0
       THEN [raises |-> TRUE, filename_prefix |-> << >>, used |-> used]
       ELSE IF ~\E b \in u.branches : b[1] = bc
       THEN [raises |-> FALSE,
             filename_prefix |-> prefix \o <<" ", "(">> \o bc \o <<")">>,
             used |-> (used \ {u})
                        \cup {[u EXCEPT !.branches = u.branches \cup {<<bc, 2>>}]}]
       ELSE [raises |-> FALSE,
             filename_prefix |-> prefix \o <<" ", "(">> \o bc \o <<"-">>
                                   \o last_word(name) \o <<")">>,
             used |-> (used \ {u})
                        \cup {[u EXCEPT !.branches =
                                 {b \in u.branches : b[1] # bc} \cup {<<bc, cnt>>}]}]

\* a row of sheet_df is [kind, rec, label, val]: kind is "data", "subtotal",
\* "blank", "detail", "total" or "spacing"; rec is the record of a data row (0
\* otherwise); label is the text of the first column of a detail or total row;
\* val is the Balance Due of a data or subtotal row and the value cell of a
\* detail or total row, << >> standing for the "-" of a detail row and for the
\* empty cell of a blank or spacing row
sheet_row(kind, rec, label, val) == [kind |-> kind, rec |-> rec, label |-> label, val |-> val]

\* lines 346-360 / 423-437: aging_dict has a category exactly when the block
\* has a row of it; the detail rows of all categories, "-" for the others
aging_detail_rows(rows) ==
    [c \in DOMAIN ALL_AGING_CATEGORIES |->
        LET of_cat == SelectSeq(rows, LAMBDA r : r.Aging = ALL_AGING_CATEGORIES[c])
        IN sheet_row("detail", 0, ALL_AGING_CATEGORIES[c],
                     IF of_cat # << >> THEN Num(SumBalance(of_cat)) ELSE << >>)]

\* a plausible slip: the total row written before the aging rows
block_rows_total_first(rows, is_last_branch) ==
    [i \in DOMAIN rows |-> sheet_row("data", rows[i].rec, "", rows[i].Balance)]
    \o << sheet_row("subtotal", 0, "", Num(SumBalance(rows))),
          sheet_row("blank", 0, "", << >>),
          sheet_row("total", 0, "Total", Num(SumBalance(rows))) >>
    \o aging_detail_rows(rows)
    \o (IF is_last_branch THEN << >>
        ELSE << sheet_row("spacing", 0, "", << >>), sheet_row("spacing", 0, "", << >>) >>)

\* the rows add_block (lines 323-378) appends for one block, and the rows
\* pass 2 appends for its group (lines 399-447, where is_last_branch is True)
block_rows(rows, is_last_branch) ==
    [i \in DOMAIN rows |-> sheet_row("data", rows[i].rec, "", rows[i].Balance)]
    \o << sheet_row("subtotal", 0, "", Num(SumBalance(rows))),
          sheet_row("blank", 0, "", << >>) >>
    \o aging_detail_rows(rows)
    \o << sheet_row("total", 0, "Total", Num(SumBalance(rows))) >>
    \o (IF is_last_branch THEN << >>
        ELSE << sheet_row("spacing", 0, "", << >>), sheet_row("spacing", 0, "", << >>) >>)

\* aging_summary_row_indexes[key] = {'type': type} on the dict kept as the set
\* of its (key, type) items
index_set(d, key, type) == {p \in d : p[1] # key} \cup {<<key, type>>}

\* aging_summary_row_indexes[running_len] = {'type': type}; running_len += 1,
\* once for each type of the list
RECURSIVE index_rows(_, _)
index_rows(ix, types) ==
    IF types = << >> THEN ix
    ELSE index_rows([ix EXCEPT !.aging_summary_row_indexes = index_set(@, ix.running_len, Head(types)),
                               !.running_len = @ + 1],
                    Tail(types))

\* a plausible slip: the subtotal index is taken after running_len is
\* incremented for the subtotal row
block_indexes_late(n, ix, is_last_branch) ==
    index_rows([ix EXCEPT !.subtotal_row_indexes = Append(@, ix.running_len + n + 1),
                          !.running_len = @ + n + 1],
               <<"blank">> \o [c \in DOMAIN ALL_AGING_CATEGORIES |-> "detail"] \o <<"total">>
               \o (IF is_last_branch THEN << >> ELSE <<"spacing", "spacing">>))

\* the bookkeeping of add_block (lines 328-378) and of pass 2 (lines 403-447)
\* for a block of n data rows: running_len, subtotal_row_indexes and
\* aging_summary_row_indexes after it, from their values ix before it
block_indexes(n, ix, is_last_branch) ==
    index_rows([ix EXCEPT !.subtotal_row_indexes = Append(@, ix.running_len + n),
                          !.running_len = @ + n + 1],
               <<"blank">> \o [c \in DOMAIN ALL_AGING_CATEGORIES |-> "detail"] \o <<"total">>
               \o (IF is_last_branch THEN << >> ELSE <<"spacing", "spacing">>))

\* lines 321 and 380-383 (pass 1), 400-403 (pass 2): the three values when
\* the sheet of a document is finished
RECURSIVE merged_indexes(_, _, _)
merged_indexes(groups, n, ix) ==
    IF n > Len(groups) THEN ix
    ELSE merged_indexes(groups, n + 1,
                        block_indexes(Len(groups[n].rows), ix, n = Len(groups)))

sheet_indexes(doc) ==
    merged_indexes(doc.blocks, 1,
                   [subtotal_row_indexes |-> << >>, aging_summary_row_indexes |-> {},
                    running_len |-> 0])

\* lines 380-385: add_block for every Branch group, then the concat
RECURSIVE merged_sheet(_, _)
merged_sheet(groups, n) ==
    IF n > Len(groups) THEN << >>
    ELSE block_rows(groups[n].rows, n = Len(groups)) \o merged_sheet(groups, n + 1)

\* lines 301-391 for the group at position k: the document written and the
\* new used_prefixes
pass1_document(df, used, k) ==
    LET master == merge_groups_map[k].master
        rows == merged_rows(df, merge_groups_map[k].aliases)
        named == pass1_prefix(used, master)
    IN [used |-> named.used,
        doc |-> [merged |-> TRUE, name |-> master, key |-> << >>,
                 blocks |-> branch_groups(rows),
                 folder |-> target_folder(master),
                 filename |-> named.filename_prefix \o FileSuffix,
                 sheet |-> merged_sheet(branch_groups(rows), 1)]]

\* lines 394-478 for one (Branch, Intermediary) key that is not an alias
pass2_document(df, used, key) ==
    LET name == safe_name(key[2])
        rows == group_rows(df, key)
        named == pass2_prefix(used, name, key[1])
    IN [raises |-> named.raises, used |-> named.used,
        doc |-> [merged |-> FALSE, name |-> name, key |-> key,
                 blocks |-> << [branch |-> key[1], rows |-> rows] >>,
                 folder |-> target_folder(name),
                 filename |-> named.filename_prefix \o FileSuffix,
                 sheet |-> block_rows(rows, TRUE)]]

\* the file at the path of document n once every document is written: a later
\* document of the same folder and filename has overwritten an earlier one
on_disk(files, n) ==
    LET same == {m \in DOMAIN files : files[m].folder = files[n].folder
                                       /\ files[m].filename = files[n].filename}
    IN files[CHOOSE m \in same : \A h \in same : h <= m]

\* lines 301-304: a merge group without rows is passed over
LedgerPass1Empty ==
    /\ l_pc = "pass1"
    /\ k_intermediary
    /\ l_k <= Len(merge_groups_map)
    /\ merged_rows(l_df, merge_groups_map[l_k].aliases) = << >>
    /\ l_k' = l_k + 1
    /\ UNCHANGED <<l_pc, l_files, l_df, l_keys, l_j, l_excel_files, l_zip, l_used, l_result>>
    /\ UNCHANGED <<agingVars, dateVars, extVars, moneyVars, ccVars, prVars>>

\* lines 301-391: one document for the merge group, a block per Branch
LedgerPass1Group ==
    /\ l_pc = "pass1"
    /\ k_intermediary
    /\ l_k <= Len(merge_groups_map)
    /\ merged_rows(l_df, merge_groups_map[l_k].aliases) # << >>
    /\ branch_groups(merged_rows(l_df, merge_groups_map[l_k].aliases)) # << >>
    /\ LET out == pass1_document(l_df, l_used, l_k) IN
       /\ l_excel_files' = Append(l_excel_files, out.doc)
       /\ l_used' = out.used
    /\ l_k' = l_k + 1
    /\ UNCHANGED <<l_pc, l_files, l_df, l_keys, l_j, l_zip, l_result>>
    /\ UNCHANGED <<agingVars, dateVars, extVars, moneyVars, ccVars, prVars>>

\* lines 380-385: every row of the merge group has a NaN Branch, groupby
\* yields no group, output_parts stays empty and pd.concat raises ValueError
\* (used_prefixes is already updated, nothing is written)
LedgerPass1Raise ==
    /\ l_pc = "pass1"
    /\ k_intermediary
    /\ l_k <= Len(merge_groups_map)
    /\ merged_rows(l_df, merge_groups_map[l_k].aliases) # << >>
    /\ branch_groups(merged_rows(l_df, merge_groups_map[l_k].aliases)) = << >>
    /\ l_used' = pass1_prefix(l_used, merge_groups_map[l_k].master).used
    /\ l_pc' = "raised"
    /\ l_result' = "ValueError"
    /\ UNCHANGED <<l_files, l_df, l_k, l_keys, l_j, l_excel_files, l_zip>>
    /\ UNCHANGED <<agingVars, dateVars, extVars, moneyVars, ccVars, prVars>>

\* line 302 (line 394 when no merge group is configured): df_all has no
\* "Intermediary" column, df_all["Intermediary"] raises KeyError before any
\* document is written
LedgerKeyError ==
    /\ l_pc = "pass1"
    /\ ~k_intermediary
    /\ l_pc' = "raised"
    /\ l_result' = "KeyError"
    /\ UNCHANGED <<l_files, l_df, l_k, l_keys, l_j, l_excel_files, l_zip, l_used>>
    /\ UNCHANGED <<agingVars, dateVars, extVars, moneyVars, ccVars, prVars>>

\* line 394: pass 1 is over, the groupby of pass 2 is taken
LedgerStartPass2 ==
    /\ l_pc = "pass1"
    /\ k_intermediary
    /\ l_k > Len(merge_groups_map)
    /\ l_keys' = groupby_keys(l_df)
    /\ l_pc' = "pass2"
    /\ UNCHANGED <<l_files, l_df, l_k, l_j, l_excel_files, l_zip, l_used, l_result>>
    /\ UNCHANGED <<agingVars, dateVars, extVars, moneyVars, ccVars, prVars>>

\* lines 394-397: a name that is an alias was handled by pass 1
LedgerPass2Skip ==
    /\ l_pc = "pass2"
    /\ l_j <= Len(l_keys)
    /\ safe_name(l_keys[l_j][2]) \in DOMAIN alias_to_master
    /\ l_j' = l_j + 1
    /\ UNCHANGED <<l_pc, l_files, l_df, l_k, l_keys, l_excel_files, l_zip, l_used, l_result>>
    /\ UNCHANGED <<agingVars, dateVars, extVars, moneyVars, ccVars, prVars>>

\* lines 394-478: one document for the (Branch, Intermediary) group
LedgerPass2Group ==
    /\ l_pc = "pass2"
    /\ l_j <= Len(l_keys)
    /\ safe_name(l_keys[l_j][2]) \notin DOMAIN alias_to_master
    /\ LET out == pass2_document(l_df, l_used, l_keys[l_j]) IN
       /\ ~out.raises
       /\ l_excel_files' = Append(l_excel_files, out.doc)
       /\ l_used' = out.used
    /\ l_j' = l_j + 1
    /\ UNCHANGED <<l_pc, l_files, l_df, l_k, l_keys, l_zip, l_result>>
    /\ UNCHANGED <<agingVars, dateVars, extVars, moneyVars, ccVars, prVars>>

\* lines 394-458: the collision test of line 458 raises TypeError on the int
\* pass 1 stored; nothing catches it, the documents written so far stay in
\* temp_dir and no archive is built
LedgerPass2Raise ==
    /\ l_pc = "pass2"
    /\ l_j <= Len(l_keys)
    /\ safe_name(l_keys[l_j][2]) \notin DOMAIN alias_to_master
    /\ pass2_document(l_df, l_used, l_keys[l_j]).raises
    /\ l_pc' = "raised"
    /\ l_result' = "TypeError"
    /\ UNCHANGED <<l_files, l_df, l_k, l_keys, l_j, l_excel_files, l_zip, l_used>>
    /\ UNCHANGED <<agingVars, dateVars, extVars, moneyVars, ccVars, prVars>>

\* lines 480-488: every path of excel_files goes into the archive with the
\* content it has on disk; the triple is returned
LedgerZip ==
    /\ l_pc = "pass2"
    /\ l_j > Len(l_keys)
    /\ l_zip' = [n \in DOMAIN l_excel_files |-> on_disk(l_excel_files, n)]
    /\ l_pc' = "done"
    /\ l_result' = "triple"
    /\ UNCHANGED <<l_files, l_df, l_k, l_keys, l_j, l_excel_files, l_used>>
    /\ UNCHANGED <<agingVars, dateVars, extVars, moneyVars, ccVars, prVars>>

NextLedger ==
    \/ LedgerNormalize
    \/ LedgerNoInput
    \/ LedgerPass1Empty
    \/ LedgerPass1Group
    \/ LedgerStartPass2
    \/ LedgerPass2Skip
    \/ LedgerPass2Group
    \/ LedgerPass2Raise
    \/ LedgerZip

SpecLedger == InitLedger /\ [][NextLedger]_vars

\* C1: in extract_soa_direct a merge group (pass 1) or a non-merged
\* (Branch, Intermediary) group (pass 2) whose Balance Due values sum to
\* exactly 0 produces no output document, and one whose sum is nonzero
\* (negative included) produces a document.
C1_LedgerZeroSkip ==
    (l_pc = "done" /\ l_files # << >>) =>
        /\ \A g \in DOMAIN merge_groups_map :
              LET rows == merged_rows(l_df, merge_groups_map[g].aliases)
                  docs == {n \in DOMAIN l_zip :
                             l_zip[n].merged /\ l_zip[n].name = merge_groups_map[g].master}
              IN rows # << >> => (docs # {} <=> SumBalance(rows) # 0)
        /\ \A k \in Range(groupby_keys(l_df)) :
              LET docs == {n \in DOMAIN l_zip : ~l_zip[n].merged /\ l_zip[n].key = k}
              IN safe_name(k[2]) \notin DOMAIN alias_to_master =>
                    (docs # {} <=> SumBalance(group_rows(l_df, k)) # 0)

\* C13: pass 2 runs after pass 1, emits no block for a name consumed in
\* pass 1 (an alias of a merge group) and emits exactly one block for every
\* other (Branch, Intermediary) pair of the records.
C13_Pass2SkipsConsumed ==
    l_pc \in {"done", "raised"} =>
        /\ \A n, m \in DOMAIN l_excel_files :
              (l_excel_files[n].merged /\ ~l_excel_files[m].merged) => n < m
        /\ \A n \in DOMAIN l_excel_files :
              ~l_excel_files[n].merged => l_excel_files[n].name \notin alias_names
        /\ \A k \in Range(groupby_keys(l_df)) :
              safe_name(k[2]) \notin alias_names =>
                 Cardinality({n \in DOMAIN l_excel_files :
                                 ~l_excel_files[n].merged /\ l_excel_files[n].key = k}) = 1

\* C14: every ledger block carries one aging-summary row per category of
\* ALL_AGING_CATEGORIES, in that order; the value cell is "-" when the block
\* has no record of the category or the category's Balance Due sum is zero,
\* and the numeric sum otherwise.
C14_AgingSummaryDash ==
    \A n \in DOMAIN l_excel_files :
        LET doc == l_excel_files[n]
            details == SelectSeq(doc.sheet, LAMBDA r : r.kind = "detail")
            K == Len(ALL_AGING_CATEGORIES)
        IN /\ Len(details) = K * Len(doc.blocks)
           /\ \A b \in DOMAIN doc.blocks : \A c \in 1 .. K :
                 LET d == details[K * (b - 1) + c]
                     of_cat == SelectSeq(doc.blocks[b].rows,
                                         LAMBDA r : r.Aging = ALL_AGING_CATEGORIES[c])
                 IN /\ d.label = ALL_AGING_CATEGORIES[c]
                    /\ d.val = IF of_cat = << >> \/ SumBalance(of_cat) = 0
                               THEN << >> ELSE Num(SumBalance(of_cat))

\* the kinds of the rows of a block of n data rows: subtotal, optional blank
\* row, one aging row per category, total, then the spacing rows
layout_kinds(n, blank, spacing) ==
    [i \in 1 .. n |-> "data"] \o <<"subtotal">>
    \o (IF blank THEN <<"blank">> ELSE << >>)
    \o [c \in DOMAIN ALL_AGING_CATEGORIES |-> "detail"] \o <<"total">>
    \o [i \in 1 .. spacing |-> "spacing"]

\* the kinds of the rows of a document, block after block
RECURSIVE document_kinds(_, _, _, _)
document_kinds(blocks, b, blank, spacing) ==
    IF b > Len(blocks) THEN << >>
    ELSE layout_kinds(Len(blocks[b].rows), blank,
                      IF b < Len(blocks) THEN spacing ELSE 0)
           \o document_kinds(blocks, b + 1, blank, spacing)

\* the records of the data rows of a document, block after block
RECURSIVE document_records(_, _)
document_records(blocks, b) ==
    IF b > Len(blocks) THEN << >>
    ELSE [i \in DOMAIN blocks[b].rows |-> blocks[b].rows[i].rec]
           \o document_records(blocks, b + 1)

\* C16: the rows laid out for a ledger block of N data rows are, in this
\* order, exactly N data rows, 1 subtotal row, one aging row per defined
\* bucket and 1 total row.
C16_BlockLayout ==
    \A n \in DOMAIN l_excel_files :
        LET doc == l_excel_files[n] IN
        [i \in DOMAIN doc.sheet |-> doc.sheet[i].kind]
            = document_kinds(doc.blocks, 1, FALSE, 0)

\* C16 as the code has it: N data rows (the block's records, in order), 1
\* subtotal row, 1 blank row, one aging row per defined bucket, 1 total row;
\* in a merged document every block but the last is followed by 2 spacing
\* rows.
C16_BlockLayoutWithBlank ==
    \A n \in DOMAIN l_excel_files :
        LET doc == l_excel_files[n]
            data == SelectSeq(doc.sheet, LAMBDA r : r.kind = "data")
        IN /\ [i \in DOMAIN doc.sheet |-> doc.sheet[i].kind]
                 = document_kinds(doc.blocks, 1, TRUE, 2)
           /\ [i \in DOMAIN data |-> data[i].rec] = document_records(doc.blocks, 1)

C16_Witness ==
    /\ l_pc = "done"
    /\ \E n, m \in DOMAIN l_excel_files :
          /\ l_excel_files[n].merged
          /\ Len(l_excel_files[n].blocks) = 2
          /\ ~l_excel_files[m].merged
          /\ Len(l_excel_files[m].sheet) = 1 + 3 + Len(ALL_AGING_CATEGORIES)

\* C20: extract_soa_direct returns the "no data" sentinel, and not the
\* (archivePath, archiveFilename, workDirectory) triple, exactly when no
\* document was produced.
C20_NoDataSentinel ==
    l_pc = "done" =>
        /\ l_result = "no data" <=> l_excel_files = << >>
        /\ l_result = "triple" <=> l_excel_files # << >>

\* C26: extract_soa_direct completes pass 2 without raising for every
\* non-merged entity, also when the entity's make_prefix value is a prefix
\* that pass 1 recorded in used_prefixes for a merged master.
C26_Pass2NeverRaises ==
    /\ l_pc # "raised"
    /\ l_result # "TypeError"

\* C27: running_len equals the number of rows appended to output_parts; in
\* the finished sheet every index of subtotal_row_indexes is the position of
\* a subtotal row, every key of aging_summary_row_indexes is the position of
\* a row of the recorded kind (blank, detail, total, spacing), the two index
\* sets are disjoint, no data row index is in either, and spacing rows occur
\* only between sub-blocks and never after the last one.
C27_RowIndexesMatchRows ==
    \A n \in DOMAIN l_excel_files :
        LET sheet == l_excel_files[n].sheet
            ix == sheet_indexes(l_excel_files[n])
            subs == Range(ix.subtotal_row_indexes)
            keys == {p[1] : p \in ix.aging_summary_row_indexes}
        IN /\ ix.running_len = Len(sheet)
           /\ \A r \in 0 .. Len(sheet) - 1 :
                 /\ r \in subs <=> sheet[r + 1].kind = "subtotal"
                 /\ \A type \in {"blank", "detail", "total", "spacing"} :
                        <<r, type>> \in ix.aging_summary_row_indexes
                           <=> sheet[r + 1].kind = type
                 /\ sheet[r + 1].kind = "data" => r \notin subs \cup keys
           /\ subs \cap keys = {}
           /\ subs \cup keys \subseteq 0 .. Len(sheet) - 1
           /\ \A r \in 1 .. Len(sheet) :
                 sheet[r].kind = "spacing" =>
                    /\ r < Len(sheet)
                    /\ sheet[r + 1].kind \in {"spacing", "data"}
                    /\ r > 1
                    /\ sheet[r - 1].kind \in {"spacing", "total"}

\* a finished run with a merged document of two Branch blocks, spacing rows
\* between them
C27_Witness ==
    /\ l_pc = "done"
    /\ \E n \in DOMAIN l_excel_files :
          /\ l_excel_files[n].merged
          /\ Len(l_excel_files[n].blocks) = 2
          /\ \E r \in DOMAIN l_excel_files[n].sheet :
                l_excel_files[n].sheet[r].kind = "spacing"
          /\ Len(sheet_indexes(l_excel_files[n]).subtotal_row_indexes) = 2

-----------------------------------------------------------------------------
(* Specification SpecNaming: extract_soa_direct on records that differ in    *)
(* Branch and Intermediary only, for the filenames and folders of pass 1 and *)
(* pass 2                                                                    *)

MaxNamingRows == 3

NamingNames ==
    { <<"A">>, <<"A", ".">>, <<"C">>, <<"C", " ">>, <<"C", ".">>, <<".", "C">>,
      <<"C", " ", "V">> }
NamingRows ==
    { [Branch |-> b, Intermediary |-> n, Assured |-> <<"Q">>,
       Incept |-> DateCell(Today - 120), Eff |-> DateCell(Today - 121),
       Balance |-> <<"5">>] : b \in LedgerBranches, n \in NamingNames }
NamingInputs ==
    { << >> } \cup { <<f>> : f \in UNION {[1 .. k -> NamingRows] : k \in 1 .. MaxNamingRows} }

InitNaming ==
    /\ l_pc = "read"
    /\ l_files \in NamingInputs
    /\ l_df = << >>
    /\ l_k = 1
    /\ l_keys = << >>
    /\ l_j = 1
    /\ l_excel_files = << >>
    /\ l_zip = << >>
    /\ l_used = {}
    /\ l_result = ""
    /\ AgingIdle
    /\ DatesIdle
    /\ MoneyIdle
    /\ CashcallIdle
    /\ PremiumIdle
    /\ ExtIdle

SpecNaming == InitNaming /\ [][NextLedger]_vars

\* the documents of pass 2 for one Branch whose names give the prefix p, in
\* the order pass 2 wrote them
pass2_documents_of(files, branch, p) ==
    SelectSeq(files, LAMBDA d : ~d.merged /\ d.key[1] = branch /\ make_prefix(d.name) = p)

\* C17: when distinct entities of one branch yield the same make_prefix value
\* in pass 2, the first processed gets the bare prefix, the second the prefix
\* followed by the branch in parentheses, the third a name that also carries
\* a token derived from its own name.  (Stated for a prefix that no merged
\* master and no other branch uses.)
C17_CollisionLadder ==
    l_pc = "done" =>
        \A b \in LedgerBranches :
        \A p \in {make_prefix(l_excel_files[n].name) : n \in DOMAIN l_excel_files} :
            LET ds == pass2_documents_of(l_excel_files, b, p)
                alone == \A n \in DOMAIN l_excel_files :
                            make_prefix(l_excel_files[n].name) = p =>
                               /\ ~l_excel_files[n].merged
                               /\ l_excel_files[n].key[1] = b
                distinct == \A i, j \in DOMAIN ds : i # j => ds[i].name # ds[j].name
                bc == branch_clean(b)
            IN (alone /\ distinct) =>
                  /\ Len(ds) >= 1 => ds[1].filename = p \o FileSuffix
                  /\ Len(ds) >= 2 =>
                        ds[2].filename = p \o <<" ", "(">> \o bc \o <<")">> \o FileSuffix
                  /\ Len(ds) >= 3 =>
                        ds[3].filename = p \o <<" ", "(">> \o bc \o <<"-">>
                                           \o last_word(ds[3].name) \o <<")">> \o FileSuffix

\* C18: no two output documents of one run are written to the same
\* (folder, filename) path.
C18_FilenamesCollisionFree ==
    \A n, m \in DOMAIN l_excel_files :
        n # m => \/ l_excel_files[n].folder # l_excel_files[m].folder
                 \/ l_excel_files[n].filename # l_excel_files[m].filename

\* extract_soa_direct from the sort on, as a function of df_all: pass 1 ...
RECURSIVE run_pass1(_, _, _, _)
run_pass1(df, k, used, files) ==
    IF k > Len(merge_groups_map) THEN [used |-> used, files |-> files]
    ELSE IF merged_rows(df, merge_groups_map[k].aliases) = << >>
    THEN run_pass1(df, k + 1, used, files)
    ELSE Let(pass1_document(df, used, k), LAMBDA out :
             run_pass1(df, k + 1, out.used, Append(files, out.doc)))

\* ... and pass 2, which ends at the first key that raises
RECURSIVE run_pass2(_, _, _, _, _)
run_pass2(df, keys, j, used, files) ==
    IF j > Len(keys) THEN [raised |-> FALSE, files |-> files]
    ELSE IF safe_name(keys[j][2]) \in DOMAIN alias_to_master
    THEN run_pass2(df, keys, j + 1, used, files)
    ELSE Let(pass2_document(df, used, keys[j]), LAMBDA out :
             IF out.raises THEN [raised |-> TRUE, files |-> files]
             ELSE run_pass2(df, keys, j + 1, out.used, Append(files, out.doc)))

\* lines 129-478 on the concatenated input rows
ledger_run(rows) ==
    Let(sort_values([i \in DOMAIN rows |-> normalize_row(rows[i], i)]), LAMBDA df :
        Let(run_pass1(df, 1, {}, << >>), LAMBDA p1 :
            run_pass2(df, groupby_keys(df), 1, p1.used, p1.files)))

\* which document went to which folder under which filename
placement(files) ==
    {<<files[n].merged, files[n].name, files[n].key, files[n].folder, files[n].filename>> :
        n \in DOMAIN files}

\* C19: the filenames and the folder of every document do not depend on the
\* order of the records: a run on any reordering of the same records writes
\* the same documents to the same folders under the same filenames (and
\* raises exactly when this run raises).
C19_NamingOrderIndependent ==
    (l_pc \in {"done", "raised"} /\ l_files # << >>) =>
        LET rows == concat(l_files) IN
        \A perm \in Permutations(DOMAIN rows) :
            LET other == ledger_run([i \in DOMAIN rows |-> rows[perm[i]]])
            IN /\ other.raised = (l_pc = "raised")
               /\ placement(other.files) = placement(l_excel_files)

C19_Witness ==
    /\ l_pc = "done"
    /\ LET rows == concat(l_files) IN
       \E i, j \in DOMAIN rows :
          /\ i < j
          /\ rows[i].Branch = rows[j].Branch
          /\ TextLess(rows[j].Intermediary, rows[i].Intermediary)
          /\ safe_name(rows[i].Intermediary) # safe_name(rows[j].Intermediary)
          /\ make_prefix(safe_name(rows[i].Intermediary))
                = make_prefix(safe_name(rows[j].Intermediary))
          /\ \E n, m \in DOMAIN l_excel_files :
                /\ l_excel_files[n].key = <<rows[i].Branch, rows[i].Intermediary>>
                /\ l_excel_files[m].key = <<rows[j].Branch, rows[j].Intermediary>>
                /\ l_excel_files[n].filename # l_excel_files[m].filename
                /\ l_excel_files[m].filename
                      = make_prefix(safe_name(rows[j].Intermediary)) \o FileSuffix

-----------------------------------------------------------------------------
(* Specification SpecPartition: extract_soa_direct on records whose Branch   *)
(* or Intermediary cell may be empty and on files without an Intermediary    *)
(* column, for the assignment of records to documents and for the errors     *)

MaxPartitionRows == 3

PartitionBranches == { <<"H">>, NaNCell }
PartitionNames == { <<"A">>, <<"A", ".">>, <<"C">>, NaNCell }
PartitionRows ==
    { [Branch |-> b, Intermediary |-> n, Assured |-> <<"Q">>,
       Incept |-> DateCell(Today - 120), Eff |-> DateCell(Today - 121),
       Balance |-> <<"5">>] : b \in PartitionBranches, n \in PartitionNames }
PartitionRowSeqs == UNION {[1 .. k -> PartitionRows] : k \in 1 .. MaxPartitionRows}
\* no file, one file, or the rows uploaded as two files
PartitionInputs ==
    { << >> } \cup { <<f>> : f \in PartitionRowSeqs }
    \cup { <<SubSeq(f, 1, 1), SubSeq(f, 2, Len(f))>> :
              f \in {g \in PartitionRowSeqs : Len(g) >= 2} }

\* without the column every row reads as a row without Intermediary
InitPartition ==
    /\ l_pc = "read"
    /\ k_intermediary \in BOOLEAN
    /\ l_files \in PartitionInputs
    /\ k_intermediary
          \/ /\ l_files # << >>
             /\ \A f \in DOMAIN l_files : \A i \in DOMAIN l_files[f] :
                    l_files[f][i].Intermediary = NaNCell
    /\ l_df = << >>
    /\ l_k = 1
    /\ l_keys = << >>
    /\ l_j = 1
    /\ l_excel_files = << >>
    /\ l_zip = << >>
    /\ l_used = {}
    /\ l_result = ""
    /\ AgingIdle
    /\ DatesIdle
    /\ MoneyIdle
    /\ CashcallIdle
    /\ PremiumIdle
    /\ MergeIdle
    /\ SummaryIdle
    /\ WorkdirIdle
    /\ ResolveIdle
    /\ JoinIdle
    /\ CleanIdle

NextPartition == NextLedger \/ LedgerPass1Raise \/ LedgerKeyError

SpecPartition == InitPartition /\ [][NextPartition]_vars

\* the documents that hold the record rec as a data row
documents_of(rec) ==
    {n \in DOMAIN l_excel_files : rec \in Range(document_records(l_excel_files[n].blocks, 1))}

\* C25: every record of the unified record set (all rows of all input files,
\* duplicates included) is a data row of exactly one output document; no
\* record is dropped by pass 1 or pass 2, a record without Branch or
\* Intermediary included, and no record is in two documents.
C25_EveryRecordOnce ==
    l_pc = "done" =>
        \A rec \in 1 .. Len(l_df) : Cardinality(documents_of(rec)) = 1

\* C23: when the "Intermediary" column is entirely absent from a ledger
\* input, extract_soa_direct fails with MalformedInputError and leaves no
\* document and no archive; for per-row data-quality issues it never raises.
C23_MalformedInputOnly ==
    /\ (l_pc \in {"done", "raised"} /\ ~k_intermediary) =>
           /\ l_result = "MalformedInputError"
           /\ l_excel_files = << >>
           /\ l_zip = << >>
    /\ k_intermediary => l_pc # "raised"

-----------------------------------------------------------------------------
(* Specification SpecSummary: the aging-summary section that the four
   formatters of the reinsurer pipelines write under one block *)

MaxSummaryRows == 3

\* determine_aging_premium: the labels of the premium Aging column
PREMIUM_AGING_COLUMNS ==
    << "CURRENT", "OVER 30 DAYS", "OVER 60 DAYS", "OVER 90 DAYS",
       "OVER 120 DAYS", "OVER 180 DAYS" >>

\* the rows of a block whose Aging cell is one of agings
aging_rows(rows, agings) == SelectSeq(rows, LAMBDA r : r.Aging \in agings)

\* x + y of two floats, NaN when either is NaN
float_add(x, y) == IF IsNa(x) \/ IsNa(y) THEN NaN ELSE Num(Val(x) + Val(y))

\* the accumulation `acc += float(str(value))` over rows: float('nan') does
\* not raise, a NaN Balance Due makes the accumulator NaN
float_sum(rows) ==
    IF \E i \in DOMAIN rows : IsNa(rows[i].Amount) THEN NaN ELSE Num(SumAmount(rows))

summary_row(label, value) == [label |-> label, value |-> value]

\* a plausible slip: the test `aging_value != 0` is left out
cashcall_summary_all(rows) ==
    [i \in DOMAIN CASHCALL_AGING_LABELS |->
        summary_row(CASHCALL_AGING_LABELS[i],
                    Num(SumAmount(aging_rows(rows, {CASHCALL_AGING_LABELS[i]}))))]
    \o << summary_row("Total",
                      Num(SumAmount(aging_rows(rows, Range(CASHCALL_AGING_LABELS))))) >>

\* apply_cashcall_formatting, lines 476-555 (the same code in
\* apply_cashcall_formatting_merged, lines 736-826): aging_summary adds up the
\* amounts of each label, an empty Amount cell is skipped; the labels whose
\* value is not 0 are written in the order of the list, then the Total row
cashcall_summary(rows) ==
    SelectSeq([i \in DOMAIN CASHCALL_AGING_LABELS |->
                  summary_row(CASHCALL_AGING_LABELS[i],
                              Num(SumAmount(aging_rows(rows, {CASHCALL_AGING_LABELS[i]}))))],
              LAMBDA r : r.value # Num(0))
    \o << summary_row("Total",
                      Num(SumAmount(aging_rows(rows, Range(CASHCALL_AGING_LABELS))))) >>

\* lines 473-513 of apply_premium_formatting (253-292 of the merged one): each
\* of the three rows is written only when its amount != 0, the Total row
\* always
premium_summary_rows(within_120, over_120, over_180) ==
    (IF within_120 # Num(0)
     THEN << summary_row("Within 120 Days - PPW", within_120) >> ELSE << >>)
    \o (IF over_120 # Num(0) THEN << summary_row("Over 120 Days", over_120) >> ELSE << >>)
    \o (IF over_180 # Num(0) THEN << summary_row("Over 180 Days", over_180) >> ELSE << >>)
    \o << summary_row("Total", float_add(float_add(within_120, over_120), over_180)) >>

\* apply_premium_formatting, lines 409-443: a Balance Due cell that is None
\* (NaN in the frame) is skipped
premium_summary(rows) ==
    premium_summary_rows(
        Num(SumAmount(aging_rows(rows, Range(SubSeq(PREMIUM_AGING_COLUMNS, 1, 4))))),
        Num(SumAmount(aging_rows(rows, {"OVER 120 DAYS"}))),
        Num(SumAmount(aging_rows(rows, {"OVER 180 DAYS"}))))

\* apply_premium_formatting_merged, lines 202-216: every Balance Due goes
\* through float(str(value)), NaN included
premium_summary_merged(rows) ==
    premium_summary_rows(
        float_sum(aging_rows(rows, Range(SubSeq(PREMIUM_AGING_COLUMNS, 1, 4)))),
        float_sum(aging_rows(rows, {"OVER 120 DAYS"})),
        float_sum(aging_rows(rows, {"OVER 180 DAYS"})))

SummaryKinds == {"cashcall", "cashcall_merged", "premium", "premium_merged"}

\* Amount is what the money coercion and the `!= 0` filter leave: a number
\* other than 0 or NaN
SummaryAmounts == {Num(5), Num(0 - 5), NaN}

\* the Aging cell: calculate_aging_cashcall always gives a label,
\* determine_aging_premium gives '' when no aging column has a number
SummaryAgings(kind) ==
    IF kind \in {"cashcall", "cashcall_merged"} THEN Range(CASHCALL_AGING_LABELS)
    ELSE Range(PREMIUM_AGING_COLUMNS) \cup {""}

SummaryRows(kind) == [Aging : SummaryAgings(kind), Amount : SummaryAmounts]

\* a block is written only when its rows exist and their subtotal is not 0
SummaryBlocks(kind) ==
    { rows \in UNION {[1 .. k -> SummaryRows(kind)] : k \in 1 .. MaxSummaryRows} :
        SumAmount(rows) # 0 }

InitSummary ==
    /\ s_pc = "data"
    /\ s_kind \in SummaryKinds
    /\ s_rows \in SummaryBlocks(s_kind)
    /\ s_summary = << >>
    /\ AgingIdle
    /\ DatesIdle
    /\ MoneyIdle
    /\ CashcallIdle
    /\ PremiumIdle
    /\ LedgerIdle
    /\ MergeIdle
    /\ LaterIdle

CashcallFormatSummary ==
    /\ s_pc = "data"
    /\ s_kind = "cashcall"
    /\ s_summary' = cashcall_summary(s_rows)
    /\ s_pc' = "done"
    /\ UNCHANGED <<s_kind, s_rows>>
    /\ UNCHANGED <<agingVars, dateVars, moneyVars, ccVars, prVars, ledVars, mergeVars, laterVars>>

CashcallMergedFormatSummary ==
    /\ s_pc = "data"
    /\ s_kind = "cashcall_merged"
    /\ s_summary' = cashcall_summary(s_rows)
    /\ s_pc' = "done"
    /\ UNCHANGED <<s_kind, s_rows>>
    /\ UNCHANGED <<agingVars, dateVars, moneyVars, ccVars, prVars, ledVars, mergeVars, laterVars>>

PremiumFormatSummary ==
    /\ s_pc = "data"
    /\ s_kind = "premium"
    /\ s_summary' = premium_summary(s_rows)
    /\ s_pc' = "done"
    /\ UNCHANGED <<s_kind, s_rows>>
    /\ UNCHANGED <<agingVars, dateVars, moneyVars, ccVars, prVars, ledVars, mergeVars, laterVars>>

PremiumMergedFormatSummary ==
    /\ s_pc = "data"
    /\ s_kind = "premium_merged"
    /\ s_summary' = premium_summary_merged(s_rows)
    /\ s_pc' = "done"
    /\ UNCHANGED <<s_kind, s_rows>>
    /\ UNCHANGED <<agingVars, dateVars, moneyVars, ccVars, prVars, ledVars, mergeVars, laterVars>>

NextSummary ==
    \/ CashcallFormatSummary \/ CashcallMergedFormatSummary
    \/ PremiumFormatSummary \/ PremiumMergedFormatSummary

SpecSummary == InitSummary /\ [][NextSummary]_vars

\* the buckets a pipeline's summary is defined over: its row label and the
\* Aging labels it adds up
summary_buckets(kind) ==
    IF kind \in {"cashcall", "cashcall_merged"}
    THEN [i \in DOMAIN CASHCALL_AGING_LABELS |->
             [label |-> CASHCALL_AGING_LABELS[i], aging |-> {CASHCALL_AGING_LABELS[i]}]]
    ELSE << [label |-> "Within 120 Days - PPW",
             aging |-> Range(SubSeq(PREMIUM_AGING_COLUMNS, 1, 4))],
            [label |-> "Over 120 Days", aging |-> {"OVER 120 DAYS"}],
            [label |-> "Over 180 Days", aging |-> {"OVER 180 DAYS"}] >>

\* the amount of a bucket as the formatter of that kind accumulates it
bucket_amount(kind, rows, agings) ==
    IF kind = "premium_merged" THEN float_sum(aging_rows(rows, agings))
    ELSE Num(SumAmount(aging_rows(rows, agings)))

premium_subtotal(rows) == Num(SumAmount(rows))

\* C29: in every premium report section the aging-summary "Total" value
\* equals the section's Balance Due subtotal, for every Aging label that
\* determine_aging_premium can produce, the empty label included.
C29_PremiumTotalIsSubtotal ==
    (s_pc = "done" /\ s_kind \in {"premium", "premium_merged"}) =>
        s_summary[Len(s_summary)].value = premium_subtotal(s_rows)

-----------------------------------------------------------------------------
(* Specification SpecWorkdir: the working directory of the three            *)
(* orchestrators (extract_soa_direct, extract_soa_reinsurer_cashcall,        *)
(* extract_soa_reinsurer_premium) over one call, an exception being possible *)
(* at every point after tempfile.mkdtemp()                                   *)

MaxDocs == 3

WorkdirKinds == {"ledger", "cashcall", "premium"}
\* the filenames of the documents a call writes, in order
WorkdirDocs == UNION {[1 .. k -> {"X", "Y"}] : k \in 0 .. MaxDocs}

\* everything the three orchestrators leave alone
workdirOthers ==
    <<agingVars, dateVars, moneyVars, ccVars, prVars, ledVars, mergeVars, summaryVars,
      columnVars, resolveVars, joinVars, cleanVars>>

InitWorkdir ==
    /\ w_pc = "start"
    /\ w_kind \in WorkdirKinds
    /\ w_docs \in WorkdirDocs
    /\ w_n = 0
    /\ w_exists = FALSE
    /\ w_disk = {}
    /\ w_result = ""
    /\ AgingIdle
    /\ DatesIdle
    /\ MoneyIdle
    /\ CashcallIdle
    /\ PremiumIdle
    /\ LedgerIdle
    /\ MergeIdle
    /\ SummaryIdle
    /\ ColumnsPresent
    /\ ResolveIdle
    /\ JoinIdle
    /\ CleanIdle

\* temp_dir = tempfile.mkdtemp(): direct line 103, cashcall line 946, premium
\* line 705; the reinsurer orchestrators enter their try block
WorkdirCreate ==
    /\ w_pc = "start"
    /\ w_exists' = TRUE
    /\ w_pc' = "try"
    /\ UNCHANGED <<w_kind, w_docs, w_n, w_disk, w_result>>
    /\ UNCHANGED workdirOthers

\* cashcall lines 957-961: no output, the directory is removed and None is
\* returned
CashcallNoOutput ==
    /\ w_pc = "try"
    /\ w_kind = "cashcall"
    /\ w_docs = << >>
    /\ w_exists' = FALSE
    /\ w_disk' = {}
    /\ w_result' = "None"
    /\ w_pc' = "returned"
    /\ UNCHANGED <<w_kind, w_docs, w_n>>
    /\ UNCHANGED workdirOthers

\* one document is written into temp_dir (direct lines 386-391 and 472-478,
\* cashcall lines 963-994, premium lines 711-739); a file of the same name is
\* overwritten
WorkdirWrite ==
    /\ w_pc = "try"
    /\ w_n < Len(w_docs)
    /\ w_disk' = w_disk \cup {w_docs[w_n + 1]}
    /\ w_n' = w_n + 1
    /\ UNCHANGED <<w_pc, w_kind, w_docs, w_exists, w_result>>
    /\ UNCHANGED workdirOthers

\* the archive is written into temp_dir and the triple is returned (direct
\* lines 123-127 and 480-488, cashcall lines 996-1011, premium lines 741-753)
WorkdirZip ==
    /\ w_pc = "try"
    /\ w_n = Len(w_docs)
    /\ ~(w_kind = "cashcall" /\ w_docs = << >>)
    /\ w_disk' = w_disk \cup {"zip"}
    /\ w_result' = "triple"
    /\ w_pc' = "returned"
    /\ UNCHANGED <<w_kind, w_docs, w_n, w_exists>>
    /\ UNCHANGED workdirOthers

\* `except Exception as e: shutil.rmtree(temp_dir, ignore_errors=True);
\* raise e` (cashcall lines 1014-1024, premium lines 755-758)
except_rmtree(exists, disk) == [exists |-> FALSE, disk |-> {}]

\* an exception inside the try block of a reinsurer orchestrator
ReinsurerRaise ==
    /\ w_pc = "try"
    /\ w_kind \in {"cashcall", "premium"}
    /\ w_exists' = except_rmtree(w_exists, w_disk).exists
    /\ w_disk' = except_rmtree(w_exists, w_disk).disk
    /\ w_result' = "exception"
    /\ w_pc' = "raised"
    /\ UNCHANGED <<w_kind, w_docs, w_n>>
    /\ UNCHANGED workdirOthers

\* an exception in extract_soa_direct after line 103: the function has no
\* try block, the exception leaves it as it is raised
LedgerRaise ==
    /\ w_pc = "try"
    /\ w_kind = "ledger"
    /\ w_result' = "exception"
    /\ w_pc' = "raised"
    /\ UNCHANGED <<w_kind, w_docs, w_n, w_exists, w_disk>>
    /\ UNCHANGED workdirOthers

NextWorkdir ==
    \/ WorkdirCreate \/ CashcallNoOutput \/ WorkdirWrite \/ WorkdirZip
    \/ ReinsurerRaise \/ LedgerRaise

SpecWorkdir == InitWorkdir /\ [][NextWorkdir]_vars

\* C21: in every orchestrator, when an exception is raised after the working
\* directory was created, the directory and every file written into it are
\* removed before the exception reaches the caller, and no archive is
\* returned.
C21_RaiseRemovesWorkdir ==
    w_result = "exception" => (~w_exists /\ w_disk = {})

-----------------------------------------------------------------------------
(* Specification SpecResolve: process_cashcall lines 216-243, which of the   *)
(* uploaded files is read as the bulk file and which as the summary file     *)

\* str.lower() on the letters the filenames use
Lower(c) ==
    CASE c = "B" -> "b" [] c = "U" -> "u" [] c = "L" -> "l" [] c = "K" -> "k"
      [] c = "S" -> "s" [] OTHER -> c
lower(s) == [i \in DOMAIN s |-> Lower(s[i])]

\* `sub in s` of two str
contains(s, sub) ==
    \E i \in 1 .. Len(s) - Len(sub) + 1 : SubSeq(s, i, i + Len(sub) - 1) = sub

bulk_text == <<"b", "u", "l", "k">>
summary_text == <<"s", "u", "m", "m", "a", "r", "y">>

ResolveNames ==
    { bulk_text, <<"B", "U", "L", "K">>, summary_text,
      <<"S">> \o Tail(summary_text), bulk_text \o <<"_">> \o summary_text,
      <<"x">>, <<"y">> }
\* one file or two files
ResolveInputs == UNION {[1 .. k -> ResolveNames] : k \in 1 .. 2}

\* everything process_cashcall's file resolution leaves alone
resolveOthers ==
    <<agingVars, dateVars, moneyVars, ccVars, prVars, ledVars, mergeVars, summaryVars,
      workdirVars, columnVars, joinVars, cleanVars>>

InitResolve ==
    /\ f_pc = "files"
    /\ f_files \in ResolveInputs
    /\ f_bulk = 0
    /\ f_summary = 0
    /\ AgingIdle
    /\ DatesIdle
    /\ MoneyIdle
    /\ CashcallIdle
    /\ PremiumIdle
    /\ LedgerIdle
    /\ MergeIdle
    /\ SummaryIdle
    /\ WorkdirIdle
    /\ ColumnsPresent
    /\ JoinIdle
    /\ CleanIdle

\* lines 219-227 on the files up to position n: the last file whose lowered
\* name has 'bulk' is bulk_file, the last one that has 'summary' and not
\* 'bulk' is summary_file
RECURSIVE name_roles(_, _)
name_roles(files, n) ==
    IF n = 0 THEN [bulk |-> 0, summary |-> 0]
    ELSE LET before == name_roles(files, n - 1)
             filename_lower == lower(files[n])
         IN IF contains(filename_lower, bulk_text) THEN [before EXCEPT !.bulk = n]
            ELSE IF contains(filename_lower, summary_text) THEN [before EXCEPT !.summary = n]
            ELSE before

\* lines 219-227
ResolveByName ==
    /\ f_pc = "files"
    /\ f_bulk' = name_roles(f_files, Len(f_files)).bulk
    /\ f_summary' = name_roles(f_files, Len(f_files)).summary
    /\ f_pc' = "named"
    /\ UNCHANGED f_files
    /\ UNCHANGED resolveOthers

\* lines 229-234: one of the two is None, both are assigned by position
ResolveByPosition ==
    /\ f_pc = "named"
    /\ f_bulk = 0 \/ f_summary = 0
    /\ f_bulk' = 1
    /\ f_summary' = IF Len(f_files) > 1 THEN 2 ELSE 0
    /\ f_pc' = "resolved"
    /\ UNCHANGED f_files
    /\ UNCHANGED resolveOthers

\* line 229, condition False: the roles found by name stay
ResolveKeepNames ==
    /\ f_pc = "named"
    /\ f_bulk # 0 /\ f_summary # 0
    /\ f_pc' = "resolved"
    /\ UNCHANGED <<f_files, f_bulk, f_summary>>
    /\ UNCHANGED resolveOthers

\* lines 236-237: ValueError without a summary file
ResolveRaise ==
    /\ f_pc = "resolved"
    /\ f_summary = 0
    /\ f_pc' = "raised"
    /\ UNCHANGED <<f_files, f_bulk, f_summary>>
    /\ UNCHANGED resolveOthers

\* lines 239-243: pd.read_csv(bulk_file), pd.read_csv(summary_file, header=7)
ResolveRead ==
    /\ f_pc = "resolved"
    /\ f_summary # 0
    /\ f_pc' = "read"
    /\ UNCHANGED <<f_files, f_bulk, f_summary>>
    /\ UNCHANGED resolveOthers

NextResolve ==
    \/ ResolveByName \/ ResolveByPosition \/ ResolveKeepNames \/ ResolveRaise
    \/ ResolveRead

SpecResolve == InitResolve /\ [][NextResolve]_vars

\* the role the name of the file at position n gives it
named_bulk(n) == contains(lower(f_files[n]), bulk_text)
named_summary(n) == contains(lower(f_files[n]), summary_text) /\ ~named_bulk(n)

\* C22: for every list of two uploaded files, a file whose name contains
\* "bulk" is read as the bulk file and a file whose name contains "summary"
\* (and not "bulk") as the summary file; the positional order decides a role
\* only when the names do not decide it, so a file matched by name is never
\* read in the opposite role. (A file counts as matched when it is the only
\* file of the list that the names give that role.)
C22_NamedFileKeepsRole ==
    (f_pc = "read" /\ Len(f_files) = 2) =>
        \A n \in 1 .. 2 :
            /\ (named_bulk(n) /\ ~named_bulk(3 - n)) => f_summary # n
            /\ (named_summary(n) /\ ~named_summary(3 - n)) => f_bulk # n

-----------------------------------------------------------------------------
(* Specification SpecJoin: process_cashcall lines 250-279, the left join of  *)
(* the summary file's LOSS DATE onto the cleaned bulk rows                   *)

MaxBulkRows == 2
MaxDetailRows == 2

JoinDates == {DateCell(1), DateCell(2), TextCell}
LossDates == {<<"L1">>, <<"L2">>, NaN}

\* the index of the frame clean_cashcall_bulk_data returns: reset_index after
\* step 2, then df[~mask] in step 3 without a reset, so labels increase and
\* may skip
BulkIndexes(n) ==
    {s \in [1 .. n -> 0 .. MaxBulkRows] : \A i \in 1 .. n - 1 : s[i] < s[i + 1]}
BulkInputs ==
    UNION { {[i \in 1 .. n |-> [idx |-> s[i], fla |-> d[i], loss |-> NaN]] :
                s \in BulkIndexes(n), d \in [1 .. n -> JoinDates]} :
            n \in 0 .. MaxBulkRows }
DetailInputs == SeqsUpTo([fla : JoinDates, loss : LossDates], MaxDetailRows)

\* everything the join leaves alone
joinOthers ==
    <<agingVars, dateVars, moneyVars, ccVars, prVars, ledVars, mergeVars, summaryVars,
      workdirVars, columnVars, resolveVars, cleanVars>>

InitJoin ==
    /\ j_pc = "cleaned"
    /\ j_bulk \in BulkInputs
    /\ j_details \in DetailInputs
    /\ j_merged = << >>
    /\ AgingIdle
    /\ DatesIdle
    /\ MoneyIdle
    /\ CashcallIdle
    /\ PremiumIdle
    /\ LedgerIdle
    /\ MergeIdle
    /\ SummaryIdle
    /\ WorkdirIdle
    /\ ColumnsPresent
    /\ ResolveIdle
    /\ CleanIdle

\* lines 250-251
JoinRaiseEmpty ==
    /\ j_pc = "cleaned"
    /\ Len(j_bulk) = 0
    /\ j_pc' = "raised"
    /\ UNCHANGED <<j_bulk, j_details, j_merged>>
    /\ UNCHANGED joinOthers

\* the rows of a left merge for the left row at position i: one row per right
\* row with an equal key, in the right frame's order (a NaT key equals a NaT
\* key), or one row of NaN when no right row has the key
merge_rows_of(left, right, i) ==
    Let(SelectSeq(right, LAMBDA r :
                to_datetime_coerce(r.fla) = to_datetime_coerce(left[i].fla)),
        LAMBDA matches :
            IF matches = << >> THEN <<[left |-> i, loss |-> NaN]>>
            ELSE [k \in DOMAIN matches |-> [left |-> i, loss |-> matches[k].loss]])

\* df_bulk_copy.merge(df_details_copy[[...]], on=['match_fla_date'], how='left')
\* on the left rows up to position n; the result has a fresh index 0, 1, ...
RECURSIVE merge_left(_, _, _)
merge_left(left, right, n) ==
    IF n = 0 THEN << >>
    ELSE merge_left(left, right, n - 1) \o merge_rows_of(left, right, n)

\* Series.fillna('-')
fillna_dash(x) == IF IsNa(x) THEN <<"-">> ELSE x

\* df['Loss Date'] = series: the value with the row's index label, NaN when
\* the series has no such label
loss_date_at(merged, label) ==
    IF label + 1 \in DOMAIN merged THEN fillna_dash(merged[label + 1].loss) ELSE NaN

\* lines 256-276
JoinMerge ==
    /\ j_pc = "cleaned"
    /\ Len(j_bulk) > 0
    /\ j_merged' = merge_left(j_bulk, j_details, Len(j_bulk))
    /\ j_pc' = "merged"
    /\ UNCHANGED <<j_bulk, j_details>>
    /\ UNCHANGED joinOthers

\* line 279
JoinPopulate ==
    /\ j_pc = "merged"
    /\ j_bulk' = [i \in DOMAIN j_bulk |->
                    [j_bulk[i] EXCEPT !.loss = loss_date_at(j_merged, j_bulk[i].idx)]]
    /\ j_pc' = "populated"
    /\ UNCHANGED <<j_details, j_merged>>
    /\ UNCHANGED joinOthers

NextJoin == JoinRaiseEmpty \/ JoinMerge \/ JoinPopulate

SpecJoin == InitJoin /\ [][NextJoin]_vars

\* the summary rows whose parsed FLA date is the parsed FLA date of a bulk row
summary_matches(row) ==
    {k \in DOMAIN j_details :
        /\ ~IsNa(to_datetime_coerce(row.fla))
        /\ to_datetime_coerce(j_details[k].fla) = to_datetime_coerce(row.fla)}

\* C24: after the left join the Loss Date of every bulk row is the LOSS DATE
\* (or "-" for an empty one) of a summary row whose parsed FLA date equals
\* that bulk row's parsed FLA date, or "-" when no summary row has that date;
\* a bulk row with an unparsable FLA date matches no summary row.
C24_LossDateOfOwnMatch ==
    j_pc = "populated" =>
        \A i \in DOMAIN j_bulk :
            IF summary_matches(j_bulk[i]) = {} THEN j_bulk[i].loss = <<"-">>
            ELSE \E k \in summary_matches(j_bulk[i]) :
                    j_bulk[i].loss = fillna_dash(j_details[k].loss)

-----------------------------------------------------------------------------
(* Specification SpecClean: clean_cashcall_bulk_data                         *)

MaxCleanRows == 3

nan_text == <<"n", "a", "n">>

\* str(cell): a NaN cell gives 'nan'
py_str(cell) == IF cell = NaNCell THEN nan_text ELSE cell

\* not pd.isna(cell) and str(cell).strip() != ''
has_value(cell) == cell # NaNCell /\ str_strip(py_str(cell)) # << >>

\* a cell of Reinsurer that is not NaN and reads 'nan' once stripped
CleanReinsurers == {NaNCell, <<"R">>, <<" ">> \o nan_text}
CleanClaims == {NaNCell, <<"K">>}
CleanPolicies == {NaNCell, <<"P">>, <<"P", "-">>}
CleanAssureds == {NaNCell, <<"S">>}
CleanRows ==
    [Reinsurer : CleanReinsurers, Claim : CleanClaims, Policy : CleanPolicies,
     Assured : CleanAssureds]
CleanInputs == SeqsUpTo(CleanRows, MaxCleanRows)

\* everything clean_cashcall_bulk_data leaves alone
cleanOthers ==
    <<agingVars, dateVars, moneyVars, ccVars, prVars, ledVars, mergeVars, summaryVars,
      workdirVars, columnVars, resolveVars, joinVars>>

InitClean ==
    /\ c_pc = "input"
    /\ c_input \in CleanInputs
    /\ c_df = c_input
    /\ c_index = [i \in DOMAIN c_input |-> i - 1]
    /\ AgingIdle
    /\ DatesIdle
    /\ MoneyIdle
    /\ CashcallIdle
    /\ PremiumIdle
    /\ LedgerIdle
    /\ MergeIdle
    /\ SummaryIdle
    /\ WorkdirIdle
    /\ ColumnsPresent
    /\ ResolveIdle
    /\ JoinIdle

\* str.endswith('-')
ends_with_dash(s) == s # << >> /\ s[Len(s)] = "-"

\* df.drop(labels).reset_index(drop=True) on the rows up to position n
RECURSIVE drop_rows(_, _, _)
drop_rows(df, labels, n) ==
    IF n = 0 THEN << >>
    ELSE drop_rows(df, labels, n - 1) \o (IF n \in labels THEN << >> ELSE <<df[n]>>)

\* lines 97-115: the position of the continuation row of the row at pos,
\* searched from offset k on, 0 for None
RECURSIVE find_continuation(_, _, _)
find_continuation(df, pos, k) ==
    IF pos + k > Len(df) THEN 0
    ELSE IF has_value(df[pos + k].Reinsurer) \/ has_value(df[pos + k].Claim) THEN 0
    ELSE IF /\ str_strip(py_str(df[pos + k].Policy)) # << >>
            /\ str_strip(py_str(df[pos + k].Policy)) # nan_text
         THEN pos + k
    ELSE find_continuation(df, pos, k + 1)

\* lines 82-128: the loop of step 1 from position pos on
RECURSIVE step1_loop(_, _, _)
step1_loop(df, rows_to_drop_step1, pos) ==
    IF pos > Len(df) THEN [df |-> df, drop |-> rows_to_drop_step1]
    ELSE IF ends_with_dash(str_strip(py_str(df[pos].Policy)))
         THEN Let(find_continuation(df, pos, 1), LAMBDA next_idx :
                IF next_idx # 0
                THEN step1_loop(
                        [df EXCEPT ![pos].Policy =
                            str_strip(str_strip(py_str(df[pos].Policy))
                                      \o str_strip(py_str(df[next_idx].Policy)))],
                        rows_to_drop_step1 \cup {next_idx}, pos + 1)
                ELSE step1_loop(df, rows_to_drop_step1, pos + 1))
    ELSE step1_loop(df, rows_to_drop_step1, pos + 1)

\* lines 79-132
CleanStep1 ==
    /\ c_pc = "input"
    /\ c_df' = Let(step1_loop(c_df, {}, 1), LAMBDA r : drop_rows(r.df, r.drop, Len(r.df)))
    /\ c_index' = [i \in DOMAIN c_df' |-> i - 1]
    /\ c_pc' = "step1"
    /\ UNCHANGED c_input
    /\ UNCHANGED cleanOthers

\* lines 162-164: the Policy Number of the last complete row after a row
\* with a Policy Number and no Reinsurer and no Claim Number
append_policy(prev_policy, new_policy) ==
    IF contains(prev_policy, new_policy) THEN prev_policy
    ELSE str_strip(prev_policy \o <<" ">> \o new_policy)

\* lines 138-168: the loop of step 2 from position pos on
RECURSIVE step2_loop(_, _, _, _)
step2_loop(df, rows_to_drop, last_valid_index, pos) ==
    IF pos > Len(df) THEN [df |-> df, drop |-> rows_to_drop]
    ELSE IF has_value(df[pos].Reinsurer) \/ has_value(df[pos].Claim)
         THEN step2_loop(df, rows_to_drop, pos, pos + 1)
    ELSE IF has_value(df[pos].Assured) /\ ~has_value(df[pos].Policy)
         THEN step2_loop(df, rows_to_drop \cup {pos}, last_valid_index, pos + 1)
    ELSE IF has_value(df[pos].Policy) /\ last_valid_index # 0
         THEN step2_loop(
                [df EXCEPT ![last_valid_index].Policy =
                    append_policy(py_str(df[last_valid_index].Policy),
                                  str_strip(py_str(df[pos].Policy)))],
                rows_to_drop \cup {pos}, last_valid_index, pos + 1)
    ELSE IF ~has_value(df[pos].Assured) /\ ~has_value(df[pos].Policy)
         THEN step2_loop(df, rows_to_drop \cup {pos}, last_valid_index, pos + 1)
    ELSE step2_loop(df, rows_to_drop, last_valid_index, pos + 1)

\* lines 134-170
CleanStep2 ==
    /\ c_pc = "step1"
    /\ c_df' = Let(step2_loop(c_df, {}, 0, 1), LAMBDA r : drop_rows(r.df, r.drop, Len(r.df)))
    /\ c_index' = [i \in DOMAIN c_df' |-> i - 1]
    /\ c_pc' = "step2"
    /\ UNCHANGED c_input
    /\ UNCHANGED cleanOthers

\* lines 178-179
col_empty(cell) ==
    \/ cell = NaNCell
    \/ str_strip(py_str(cell)) = << >>
    \/ str_strip(py_str(cell)) = nan_text

\* lines 176-180: the mask of the rows whose three critical columns are empty
critical_empty(row) ==
    col_empty(row.Reinsurer) /\ col_empty(row.Policy) /\ col_empty(row.Claim)

\* lines 172-188: df[~mask].copy(), the rows keep their labels
CleanStep3 ==
    /\ c_pc = "step2"
    /\ c_df' = SelectSeq(c_df, LAMBDA row : ~critical_empty(row))
    /\ c_index' = drop_rows(c_index, {i \in DOMAIN c_df : critical_empty(c_df[i])},
                             Len(c_index))
    /\ c_pc' = "cleaned"
    /\ UNCHANGED c_input
    /\ UNCHANGED cleanOthers

NextClean == CleanStep1 \/ CleanStep2 \/ CleanStep3

SpecClean == InitClean /\ [][NextClean]_vars

\* a row with a non-empty Reinsurer or a non-empty Claim Number
complete_row(row) == has_value(row.Reinsurer) \/ has_value(row.Claim)

complete_count(df) == Cardinality({i \in DOMAIN df : complete_row(df[i])})

\* C30: after clean_cashcall_bulk_data every remaining row has a non-empty
\* Reinsurer or a non-empty Claim Number, the row count has not increased and
\* no complete row has been removed.
C30_OnlyCompleteRowsRemain ==
    c_pc = "cleaned" =>
        /\ \A i \in DOMAIN c_df : complete_row(c_df[i])
        /\ Len(c_df) <= Len(c_input)
        /\ complete_count(c_df) = complete_count(c_input)

-----------------------------------------------------------------------------
Init ==
    \/ InitAging \/ InitDates \/ InitMoney \/ InitCashcall \/ InitPremium \/ InitLedger
    \/ InitMerge \/ InitNaming \/ InitSummary \/ InitPartition
    \/ InitWorkdir \/ InitResolve \/ InitJoin \/ InitClean
Next ==
    \/ NextAging \/ NextDates \/ NextMoney \/ NextCashcall \/ NextPremium \/ NextLedger
    \/ NextMerge \/ NextSummary \/ LedgerPass1Raise \/ LedgerKeyError
    \/ NextWorkdir \/ NextResolve \/ NextJoin \/ NextClean
Spec == Init /\ [][Next]_vars
====
